---- MODULE Spec2Model ----
(***************************************************************************)
(* AURORA scan engine (core/engine.py), its HTTP transport (core/http.py)  *)
(* and its OAST listener (core/oast_listener.py) as a state machine.       *)
(*                                                                         *)
(* The specifications share the variables:                                 *)
(*   SpecRL  the RateLimiter shared by concurrent RequestContext.request   *)
(*           callers, over a discrete clock;                               *)
(*   Spec    Engine.scan: the worker pool, the per-target pipeline         *)
(*           (_scan_one) and the OAST listener;                            *)
(*   SpecLive  Engine.scan on the local queue, with fairness;              *)
(*   SpecHttp  concurrent callers of AuroraHTTPClient.request;             *)
(*   SpecClose  Engine.scan followed by Engine.aclose;                     *)
(*   SpecCalls  single calls of tier_for_confidence and of the run()       *)
(*           methods of the detection modules, over bounded inputs.        *)
(* asyncio runs coroutines cooperatively on one thread, so each action is  *)
(* the code between two suspension points.                                 *)
(***************************************************************************)
EXTENDS Integers, Sequences, FiniteSets, TLC

\* Python None, per type of the field that holds it
NULL == "null"
NoStatus == 0
NoTarget == 0

Max(a, b) == IF a >= b THEN a ELSE b

Range(s) == { s[i] : i \in 1..Len(s) }

----------------------------------------------------------------------------
(* Bounds *)

\* callers of RequestContext.request sharing the one RateLimiter
NumCallers == 2
\* last tick of the discrete perf_counter clock
MaxTime == 5
\* requests issued through the limiter in one run
MaxAdmissions == 3

\* interval = 1 / rps, in clock ticks
IntervalValues == {2, 3}

Callers == 1..NumCallers

\* targets handed to Engine.scan
NumTargets == 2
\* interactions the external OAST service reports in one run
MaxCallbacks == 1

\* ScanConfig.concurrency values; the engine starts max(1, concurrency) workers
ConcurrencyValues == {0, 1, 2}

Targets == 1..NumTargets

\* a scan of every target
TargetList == [i \in 1..NumTargets |-> i]

MaxOf(S) == CHOOSE x \in S : \A y \in S : y <= x

Workers == 1..Max(1, MaxOf(ConcurrencyValues))

----------------------------------------------------------------------------
VARIABLES
    \* RateLimiter / RequestContext (SpecRL)
    clock,          \* time.perf_counter()
    interval,       \* RateLimiter._interval
    next_allowed,   \* RateLimiter._next_allowed
    lock,           \* RateLimiter._lock: 0 = free, else the holder
    rlpc,           \* position of each caller in RequestContext.request
    admissions,     \* when each wait() returned, and whether it slept
    \* Engine (Spec)
    config,         \* ScanConfig and the module list given to Engine.__init__
    host,           \* how each target's host answers (environment)
    targets,        \* the target list Engine.scan is called with
    scan,           \* Engine.scan: "new", "running", "returned", "raised"
    scan_exc,       \* the exception Engine.scan raised, NULL if none
    queue,          \* the local asyncio.Queue of targets
    backend,        \* what the workers' queue is: "none" before scan, "local",
                    \* or the client object of a distributed backend
    pushed,         \* targets this engine sent to the shared queue, in order
    wk,             \* per worker: position and the locals of _scan_one
    results,        \* the results list of Engine.scan
    total_requests,     \* EngineStats.total_requests
    completed_targets,  \* EngineStats.completed_targets
    listener,       \* Engine._oast_listener (OASTListener) or NULL
    callbacks,      \* OASTListener._callbacks
    started,        \* per target: how many times _scan_one was entered
    finding_cb_log, \* per target: findings passed to the finding callback
    progress_log,   \* arguments of the progress callback, in call order
    module_log,     \* per target: the module runs, with what each returned
    check_log,      \* per target: what check_callbacks returned to _scan_one
    \* AuroraHTTPClient and Engine.aclose (SpecHttp, SpecClose)
    http_open,      \* the httpx client of AuroraHTTPClient is open
    aclose_log,     \* one entry per call of Engine.aclose: how it ended
    waf_bypass,     \* AuroraHTTPClient._waf_bypass (WAFBypassConfig)
    strategy_index, \* AuroraHTTPClient._strategy_index
    http_pc,        \* position of each caller in AuroraHTTPClient.request
    sent,           \* the calls of AuroraHTTPClient.request that reached
                    \* lines 251-255, in that order, with their outcome
    \* pure functions and module runs (SpecCalls)
    call            \* one call: the function, its argument, its return value

rlvars == <<clock, interval, next_allowed, lock, rlpc, admissions>>

engvars == <<config, host, targets, scan, scan_exc, queue, backend, pushed, wk, results, completed_targets,
             listener, callbacks, started, finding_cb_log, progress_log,
             module_log, check_log,
             http_open, aclose_log, waf_bypass, strategy_index, http_pc, sent>>

httpvars == <<http_open, aclose_log, waf_bypass, strategy_index, http_pc, sent>>

vars == <<clock, interval, next_allowed, lock, rlpc, admissions,
          config, host, targets, scan, scan_exc, queue, backend, pushed, wk,
          results, total_requests,
          completed_targets, listener, callbacks, started, finding_cb_log,
          progress_log, module_log, check_log,
          http_open, aclose_log, waf_bypass, strategy_index, http_pc, sent,
          call>>

----------------------------------------------------------------------------
(* Scoring, evidence, findings *)

\* core/scoring.py thresholds
ConfirmedMin == 92
HighlyLikelyMin == 78
PossibleMin == 55

\* the thresholds taken as exclusive
TierAboveThreshold(c) ==
    IF c > ConfirmedMin THEN "CONFIRMED"
    ELSE IF c > HighlyLikelyMin THEN "HIGHLY_LIKELY"
    ELSE IF c > PossibleMin THEN "POSSIBLE"
    ELSE NULL

tier_for_confidence(c) ==
    IF c >= ConfirmedMin THEN "CONFIRMED"
    ELSE IF c >= HighlyLikelyMin THEN "HIGHLY_LIKELY"
    ELSE IF c >= PossibleMin THEN "POSSIBLE"
    ELSE NULL

\* EvidenceItem; summary and url are kept structured instead of formatted
NoDetails == [body_sample |-> "", callback_type |-> "", interaction |-> {},
              timestamp |-> 0]

EvidenceItem(kind, summary, url, method, status_code, details) ==
    [kind |-> kind, summary |-> summary, url |-> url, method |-> method,
     status_code |-> status_code, details |-> details]

\* EvidenceItem.stable_id: a hash of the five fields, details excluded
stable_id(it) == <<it.kind, it.summary, it.url, it.method, it.status_code>>

Finding(module, vulnerability, cve, confidence, tier, evidence_ids) ==
    [module |-> module, vulnerability |-> vulnerability, cve |-> cve,
     confidence |-> confidence, tier |-> tier, evidence_ids |-> evidence_ids]

\* Python compares str by code point; the names that occur, in that order
NameOrder ==
    << "Experimental Check", "Fastjson Deserialization RCE Family",
       "Log4Shell", "Node.js vm2 Sandbox Escape",
       "OAST Callback Detected", "Spring4Shell", "Text4Shell",
       "broken", "experimental", "fastjson", "log4shell", "oast_listener", "spring4shell",
       "text4shell", "vm2" >>

StrRank(n) == CHOOSE i \in 1..Len(NameOrder) : NameOrder[i] = n

\* tuple comparison of the sort key (-confidence, vulnerability, module)
KeyLess(f, g) ==
    \/ -f.confidence < -g.confidence
    \/ /\ f.confidence = g.confidence
       /\ \/ StrRank(f.vulnerability) < StrRank(g.vulnerability)
          \/ /\ f.vulnerability = g.vulnerability
             /\ StrRank(f.module) < StrRank(g.module)

\* insert f after every element whose key is not greater (stable)
RECURSIVE InsertSorted(_, _)
InsertSorted(f, s) ==
    IF s = <<>> THEN <<f>>
    ELSE IF KeyLess(f, Head(s)) THEN <<f>> \o s
    ELSE <<Head(s)>> \o InsertSorted(f, Tail(s))

RECURSIVE SortPrefix(_, _)
SortPrefix(s, n) ==
    IF n = 0 THEN <<>> ELSE InsertSorted(s[n], SortPrefix(s, n - 1))

\* a sort that forgets the tie-breaking keys
SortByConfidenceOnly(s) ==
    LET conf(f) == [f EXCEPT !.vulnerability = "Log4Shell", !.module = "vm2"]
        RECURSIVE Ins(_, _)
        Ins(f, t) == IF t = <<>> THEN <<f>>
                     ELSE IF KeyLess(conf(f), conf(Head(t))) THEN <<f>> \o t
                     ELSE <<Head(t)>> \o Ins(f, Tail(t))
        RECURSIVE Go(_)
        Go(n) == IF n = 0 THEN <<>> ELSE Ins(s[n], Go(n - 1))
    IN Go(Len(s))

\* findings.sort(key=lambda x: (-x.confidence, x.vulnerability, x.module))
SortFindings(s) == SortPrefix(s, Len(s))

----------------------------------------------------------------------------
(* HTTP transport *)

\* the baseline probes of _scan_one, in order
BaselinePaths ==
    << "/", "/robots.txt", "/actuator", "/actuator/info", "/actuator/env",
       "/api/status" >>

\* what the underlying httpx request can do: answer, raise an
\* httpx.RequestError (connection refused, TLS failure, timeout), or raise
\* another exception (httpx.InvalidURL for a malformed URL)
HostModes == {"up", "down", "badurl"}

Outcome(mode) ==
    CASE mode = "up" -> [kind |-> "response", status_code |-> 200]
      [] mode = "down" -> [kind |-> "RequestError", status_code |-> NoStatus]
      [] OTHER -> [kind |-> "Exception", status_code |-> NoStatus]

\* AuroraHTTPClient.request: the exception that leaves it (NULL if none),
\* the HTTPResult and the evidence item it adds
ClientRequest(method, url, out) ==
    LET status == IF out.kind = "response" THEN out.status_code ELSE NoStatus
        body == IF out.kind = "response" THEN "body" ELSE "<request_error>"
    IN [raises |-> IF out.kind \in {"response", "RequestError"} THEN NULL
                   ELSE out.kind,
        result |-> [url |-> url, method |-> method, status_code |-> status,
                    body_sample |-> body],
        item |-> EvidenceItem("http", <<method, url, status>>, url, method,
                              status, [NoDetails EXCEPT !.body_sample = body])]

\* fingerprint_from_observations: answering hosts send a Server header; the
\* first answered observation sets fp.server and adds one evidence item
FirstAnswered(obs) ==
    IF \E i \in 1..Len(obs) : obs[i].status_code # NoStatus
    THEN CHOOSE i \in 1..Len(obs) :
            /\ obs[i].status_code # NoStatus
            /\ \A j \in 1..(i - 1) : obs[j].status_code = NoStatus
    ELSE 0

fingerprint_from_observations(obs) ==
    LET i == FirstAnswered(obs)
    IN IF i = 0 THEN [fp |-> [server |-> NULL], items |-> <<>>]
       ELSE [fp |-> [server |-> "nginx"],
             items |-> << EvidenceItem("fingerprint", <<"Server header", "nginx">>,
                                       obs[i].url, obs[i].method,
                                       obs[i].status_code, NoDetails) >>]

----------------------------------------------------------------------------
(* Strings and versions *)

\* A string the parsers read, as its sequence of tokens: a run of digits
\* ("17"), one separator character (".", "-", "_", "+"), a blank (" "), or a
\* run of other characters ("^", "RELEASE"). <<>> is the empty string and
\* stands for None where the code treats both alike.
NoString == <<>>

\* int() of a run of digits
Digits ==
    ("0" :> 0) @@ ("1" :> 1) @@ ("2" :> 2) @@ ("3" :> 3) @@ ("4" :> 4) @@
    ("5" :> 5) @@ ("8" :> 8) @@ ("9" :> 9) @@ ("10" :> 10) @@ ("11" :> 11) @@
    ("14" :> 14) @@ ("15" :> 15) @@ ("17" :> 17) @@ ("18" :> 18) @@
    ("19" :> 19) @@ ("20" :> 20) @@ ("68" :> 68) @@ ("292" :> 292)

IsDigits(tok) == tok \in DOMAIN Digits

\* int(part) raised ValueError
NoInt == -1

\* int(part): one run of digits and nothing else
IntOf(part) ==
    IF Len(part) = 1 /\ IsDigits(part[1]) THEN Digits[part[1]] ELSE NoInt

RECURSIVE SplitParts(_, _, _)
SplitParts(s, seps, cur) ==
    IF s = <<>> THEN << cur >>
    ELSE IF Head(s) \in seps
    THEN << cur >> \o SplitParts(Tail(s), seps, <<>>)
    ELSE SplitParts(Tail(s), seps, Append(cur, Head(s)))

\* str.split / re.split on single separator characters
Split(s, seps) == SplitParts(s, seps, <<>>)

RECURSIVE lstrip(_)
lstrip(s) == IF s # <<>> /\ Head(s) = " " THEN lstrip(Tail(s)) ELSE s

RECURSIVE rstrip(_)
rstrip(s) ==
    IF s # <<>> /\ s[Len(s)] = " " THEN rstrip(SubSeq(s, 1, Len(s) - 1)) ELSE s

\* str.strip
strip(s) == rstrip(lstrip(s))

\* str.lower of the words that occur in URLs
Lower ==
    ("http" :> "http") @@ ("HTTP" :> "http") @@ ("https" :> "https") @@
    ("Https" :> "https") @@ ("example.com" :> "example.com") @@
    ("Example.COM" :> "example.com") @@ ("a" :> "a") @@ ("A" :> "a")

\* the first position of token tok in s, 0 if there is none
Find(s, tok) ==
    IF \E i \in 1..Len(s) : s[i] = tok
    THEN CHOOSE i \in 1..Len(s) :
            s[i] = tok /\ \A j \in 1..(i - 1) : s[j] # tok
    ELSE 0

\* str.rstrip("/")
RECURSIVE rstrip_slash(_)
rstrip_slash(s) ==
    IF s # <<>> /\ s[Len(s)] = "/"
    THEN rstrip_slash(SubSeq(s, 1, Len(s) - 1))
    ELSE s

\* urllib.parse.urlparse of a URL made of words, "://", "/" and blanks: the
\* scheme is the word before "://", lower-cased; the netloc runs from there
\* to the first "/" and keeps its case; the path is the rest
urlparse(url) ==
    LET i == Find(url, "://")
        rest == SubSeq(url, i + 1, Len(url))
        j == Find(rest, "/")
    IN IF i # 2 \/ url[1] \notin DOMAIN Lower
       THEN [scheme |-> NoString, netloc |-> NoString, path |-> url]
       ELSE [scheme |-> << Lower[url[1]] >>,
             netloc |-> IF j = 0 THEN rest ELSE SubSeq(rest, 1, j - 1),
             path |-> IF j = 0 THEN <<>> ELSE SubSeq(rest, j, Len(rest))]

\* utils.helpers.normalize_url: the exception raised, or the canonical URL
normalize_url(raw, default_scheme) ==
    LET stripped == strip(raw)
        full == IF Find(stripped, "://") = 0
                THEN << default_scheme, "://" >> \o stripped
                ELSE stripped
        parsed == urlparse(full)
        base == parsed.scheme \o << "://" >> \o parsed.netloc
    IN IF stripped = <<>> THEN [raises |-> "ValueError", url |-> NoString]
       ELSE IF parsed.netloc = <<>>
       THEN [raises |-> "ValueError", url |-> NoString]
       ELSE [raises |-> NULL,
             url |-> IF parsed.path # <<>> /\ parsed.path # << "/" >>
                     THEN base \o rstrip_slash(parsed.path)
                     ELSE base]

\* parse_semver returned None
NoVersion == <<>>

\* the loop of parse_semver: numeric parts until one is empty, does not start
\* with a digit or is not an int, or four are collected
RECURSIVE NumericPrefix(_, _)
NumericPrefix(parts, numeric) ==
    IF parts = <<>> \/ Len(numeric) >= 4 THEN numeric
    ELSE LET part == Head(parts)
         IN IF part = <<>> THEN numeric
            ELSE IF ~IsDigits(part[1]) THEN numeric
            ELSE IF IntOf(part) = NoInt THEN numeric
            ELSE NumericPrefix(Tail(parts), Append(numeric, IntOf(part)))

\* utils.helpers.parse_semver
parse_semver(v) ==
    LET numeric == NumericPrefix(Split(strip(v), {".", "+", "_", "-"}), <<>>)
    IN IF Len(numeric) < 3 THEN NoVersion ELSE numeric

\* pad of semver_inclusive_between
pad(x, width) == x \o [i \in 1..(width - Len(x)) |-> 0]

\* Python's <= on two tuples of the same length
RECURSIVE TupleLeq(_, _)
TupleLeq(a, b) ==
    IF a = <<>> THEN TRUE
    ELSE IF Head(a) # Head(b) THEN Head(a) < Head(b)
    ELSE TupleLeq(Tail(a), Tail(b))

\* utils.helpers.semver_inclusive_between
semver_inclusive_between(v, low, high) ==
    LET width == Max(Len(v), Max(Len(low), Len(high)))
    IN /\ TupleLeq(pad(low, width), pad(v, width))
       /\ TupleLeq(pad(v, width), pad(high, width))

----------------------------------------------------------------------------
(* Detection modules *)

\* what run() gives back to the engine: the exception it raised (NULL if
\* none), the findings it returned, the items it added to ctx.evidence in
\* order, and the number of requests it sent through ctx.http
RunResult(raises, findings, items, requests) ==
    [raises |-> raises, findings |-> findings, items |-> items,
     requests |-> requests]

\* Provenance(url=base, method="EVIDENCE", status_code=None) items of modules
Signal(kind, summary, t) ==
    EvidenceItem(kind, summary, <<t, "">>, "EVIDENCE", NoStatus, NoDetails)

\* ids built from the kind and summary alone
StableIdsShort(items) ==
    [i \in 1..Len(items) |-> <<items[i].kind, items[i].summary>>]

\* evidence_ids.append(ev.stable_id()) for each item of a module
StableIds(items) == [i \in 1..Len(items) |-> stable_id(items[i])]

\* the answer of a host to one request of a module: Outcome plus the markers
\* the module looks for in the body
Answer(kind, status_code, markers) ==
    [kind |-> kind, status_code |-> status_code, markers |-> markers]

Unanswered == Answer("RequestError", NoStatus, {})

\* Spring4ShellModule._parse_java_major: the part of the string that int()
\* is applied to
java_major_part(raw) ==
    LET r == strip(raw)
    IN IF Len(r) >= 2 /\ r[1] = "1" /\ r[2] = "."
       THEN Split(r, {"."})[2]
       ELSE Split(r, {"."})[1]

\* needles of _probe_classloader_binding_surface
BinderNeedles ==
    {"org.springframework.beans", "failed to bind", "invalid property 'class'",
     "classloader"}

Spring4ShellConfidence == 95

\* the ranges with the first fixed release 5.3.18 let in
Spring4ShellVulnerableLoose(sem) ==
    \/ semver_inclusive_between(sem, <<5, 3, 0>>, <<5, 3, 18>>)
    \/ semver_inclusive_between(sem, <<5, 2, 0>>, <<5, 2, 19>>)

\* lines 30-32 of Spring4ShellModule.run
Spring4ShellVulnerable(sem) ==
    \/ semver_inclusive_between(sem, <<5, 3, 0>>, <<5, 3, 17>>)
    \/ semver_inclusive_between(sem, <<5, 2, 0>>, <<5, 2, 19>>)

\* any answer to the request counts as a WAR deployment
WarAnswered(status_code) == status_code # NoStatus

\* line 60 of Spring4ShellModule.run: /WEB-INF/web.xml exists but is protected
WarProtected(status_code) == status_code \in {401, 403}

\* Spring4ShellModule.run. input: jar_ver (first spring-*.jar version found
\* in the observations), actuator_ver and java_version (strings found under
\* the actuator keys), containers and server of the fingerprint (server as
\* the set of lower-case names it contains), and the answers to the
\* /WEB-INF/web.xml and POST / requests
Spring4ShellRun(t, input) ==
    LET spring_ver == IF input.jar_ver # NoString THEN input.jar_ver
                      ELSE input.actuator_ver
        sem == parse_semver(spring_ver)
        vulnerable == sem # NoVersion /\ Spring4ShellVulnerable(sem)
        major_part == java_major_part(input.java_version)
        jdk_major == IF input.java_version = NoString THEN NoInt
                     ELSE IntOf(major_part)
        web_inf == ClientRequest("GET", <<t, "/WEB-INF/web.xml">>, input.web_inf)
        is_tomcat == \/ "tomcat" \in input.containers
                     \/ "tomcat" \in input.server
                     \/ "apache-coyote" \in input.server
        probe == ClientRequest("POST", <<t, "/">>, input.probe)
        surface == /\ probe.result.status_code \in {400, 422, 500}
                   /\ input.probe.markers \cap BinderNeedles # {}
        ev1 == Signal("precondition",
                      <<"Spring Framework version">> \o spring_ver, t)
        ev2 == Signal("precondition", <<"JDK major version">> \o major_part, t)
        ev3 == EvidenceItem("precondition", <<"WAR-like deployment">>,
                            web_inf.result.url, web_inf.result.method,
                            web_inf.result.status_code, NoDetails)
        ev4 == Signal("precondition", <<"Apache Tomcat detected">>, t)
        ev5 == Signal("precondition", <<"Data binding surface">>, t)
        confidence == Spring4ShellConfidence
        tier == tier_for_confidence(confidence)
    IN IF spring_ver = NoString \/ ~vulnerable
       THEN RunResult(NULL, <<>>, <<>>, 0)
       ELSE IF jdk_major = NoInt \/ jdk_major < 9
       THEN RunResult(NULL, <<>>, <<ev1>>, 0)
       ELSE IF ~WarProtected(web_inf.result.status_code)
       THEN RunResult(NULL, <<>>, <<ev1, ev2, web_inf.item>>, 1)
       ELSE IF ~is_tomcat
       THEN RunResult(NULL, <<>>, <<ev1, ev2, web_inf.item, ev3>>, 1)
       ELSE IF ~surface
       THEN RunResult(NULL, <<>>,
                      <<ev1, ev2, web_inf.item, ev3, ev4, probe.item>>, 2)
       ELSE IF tier = NULL
       THEN RunResult(NULL, <<>>,
                      <<ev1, ev2, web_inf.item, ev3, ev4, probe.item, ev5>>, 2)
       ELSE RunResult(NULL,
                << Finding("spring4shell", "Spring4Shell", "CVE-2022-22965",
                           confidence, tier,
                           StableIds(<<ev1, ev2, ev3, ev4, ev5>>)) >>,
                <<ev1, ev2, web_inf.item, ev3, ev4, probe.item, ev5>>, 2)

\* the pattern without its end anchor: anything may follow the version
ExactVersionPrefix(s) ==
    \E k \in 1..Len(s) :
        LET r == SubSeq(s, 1, k)
        IN /\ Len(r) \in {5, 7}
           /\ \A i \in 1..Len(r) :
                 IF i % 2 = 1 THEN IsDigits(r[i]) ELSE r[i] = "."

\* Vm2Module._EXACT_VERSION_RE: three or four runs of digits joined by dots
ExactVersionMatch(s) ==
    /\ Len(s) \in {5, 7}
    /\ \A i \in 1..Len(s) : IF i % 2 = 1 THEN IsDigits(s[i]) ELSE s[i] = "."

\* the sections of package.json in the order run() reads them
Vm2Sections == << "dependencies", "devDependencies", "optionalDependencies" >>

Vm2Confidence == 78

\* Vm2Module.run. input: the answer to GET /package.json, whether its body is
\* a JSON object, and for each section whether it is an object with a string
\* "vm2" entry (has) and that string (dep)
Vm2Run(t, input) ==
    LET pkg == ClientRequest("GET", <<t, "/package.json">>, input.pkg)
        with == { i \in 1..Len(Vm2Sections) : input.sections[i].has }
        first == CHOOSE i \in with : \A j \in with : i <= j
        dep == input.sections[first].dep
        ver == strip(dep)
        sem == parse_semver(ver)
        ev == EvidenceItem("version", <<"vm2 pinned to">> \o ver,
                           pkg.result.url, pkg.result.method,
                           pkg.result.status_code, NoDetails)
        confidence == Vm2Confidence
        tier == tier_for_confidence(confidence)
        nothing == RunResult(NULL, <<>>, << pkg.item >>, 1)
    IN IF pkg.result.status_code # 200 THEN nothing
       ELSE IF ~input.is_object THEN nothing
       ELSE IF with = {} THEN nothing
       ELSE IF ~ExactVersionMatch(ver) THEN nothing
       ELSE IF sem = NoVersion THEN nothing
       ELSE IF ~semver_inclusive_between(sem, <<0, 0, 0>>, <<3, 9, 18>>)
       THEN nothing
       ELSE IF tier = NULL THEN RunResult(NULL, <<>>, << pkg.item, ev >>, 1)
       ELSE RunResult(NULL,
                << Finding("vm2", "Node.js vm2 Sandbox Escape",
                           "CVE-2023-37466", confidence, tier,
                           StableIds(<<ev>>)) >>,
                << pkg.item, ev >>, 1)

\* utils.oast.normalize_domain accepts the domain (something is left after
\* strip() and strip("."))
DomainUsable(domain) ==
    \E i \in 1..Len(domain) : domain[i] \notin {" ", "."}

\* the trigger sent a second time
TriggerRepeated(t, summary, answer) ==
    LET req == ClientRequest("GET", <<t, "/">>, answer)
    IN << req.item, req.item,
          EvidenceItem("behavior", summary, <<t, "/">>, "GET", NoStatus,
                       NoDetails) >>

\* the trigger request of Log4ShellModule.run / Text4ShellModule.run and the
\* "behavior" item recorded after it
Trigger(t, summary, answer) ==
    LET req == ClientRequest("GET", <<t, "/">>, answer)
    IN << req.item,
          EvidenceItem("behavior", summary, <<t, "/">>, "GET", NoStatus,
                       NoDetails) >>

Log4ShellPresenceConfidence == 60
Log4ShellTriggerConfidence == 88
Log4ShellVersionConfidence == 85

\* Log4ShellModule.run. input: version (first log4j version found in the
\* observations), presence (package strings seen), the answer to the
\* trigger request; oast_domain as given to __init__
Log4ShellRun(t, input, oast_domain) ==
    LET sem == parse_semver(input.version)
        ev_presence == Signal("version", <<"Log4j package strings observed">>, t)
        ev_version == Signal("version",
                             <<"Log4j version confirmed as">> \o input.version, t)
        trig == Trigger(t, <<"Log4Shell OAST trigger header set">>,
                        input.trigger)
        oast_used == oast_domain # NoString
        items == IF oast_used THEN <<ev_version>> \o trig ELSE <<ev_version>>
        ids == IF oast_used THEN StableIds(<<ev_version, trig[2]>>)
               ELSE StableIds(<<ev_version>>)
        confidence == IF oast_used THEN Log4ShellTriggerConfidence
                      ELSE Log4ShellVersionConfidence
        tier == tier_for_confidence(confidence)
    IN IF input.version = NoString
       THEN IF ~input.presence THEN RunResult(NULL, <<>>, <<>>, 0)
            ELSE IF tier_for_confidence(Log4ShellPresenceConfidence) = NULL
            THEN RunResult(NULL, <<>>, <<ev_presence>>, 0)
            ELSE RunResult(NULL,
                    << Finding("log4shell", "Log4Shell", "CVE-2021-44228",
                               Log4ShellPresenceConfidence,
                               tier_for_confidence(Log4ShellPresenceConfidence),
                               StableIds(<<ev_presence>>)) >>,
                    <<ev_presence>>, 0)
       ELSE IF sem = NoVersion THEN RunResult(NULL, <<>>, <<>>, 0)
       ELSE IF ~semver_inclusive_between(sem, <<2, 0, 0>>, <<2, 14, 1>>)
       THEN RunResult(NULL, <<>>, <<>>, 0)
       ELSE IF oast_used /\ ~DomainUsable(oast_domain)
       THEN RunResult("ValueError", <<>>, <<ev_version>>, 0)
       ELSE IF tier = NULL
       THEN RunResult(NULL, <<>>, items, IF oast_used THEN 1 ELSE 0)
       ELSE RunResult(NULL,
                << Finding("log4shell", "Log4Shell", "CVE-2021-44228",
                           confidence, tier, ids) >>,
                items, IF oast_used THEN 1 ELSE 0)

\* Text4ShellModule._normalize: "1.9" becomes "1.9.0"
normalize(ver) ==
    IF Len(Split(ver, {"."})) = 2 THEN ver \o <<".", "0">> ELSE ver

Text4ShellPresenceConfidence == 60
Text4ShellVersionConfidence == 82

\* Text4ShellModule.run, with the input of Log4ShellRun for commons-text
Text4ShellRun(t, input, oast_domain) ==
    LET sem == parse_semver(normalize(input.version))
        ev_presence == Signal("version", <<"Apache Commons Text observed">>, t)
        ev_version ==
            Signal("version",
                   <<"Apache Commons Text version confirmed as">>
                       \o input.version, t)
        trig == Trigger(t, <<"Text4Shell OAST trigger header set">>,
                        input.trigger)
        oast_used == oast_domain # NoString
        items == IF oast_used THEN <<ev_version>> \o trig ELSE <<ev_version>>
        ids == IF oast_used THEN StableIds(<<ev_version, trig[2]>>)
               ELSE StableIds(<<ev_version>>)
        confidence == Text4ShellVersionConfidence
        tier == tier_for_confidence(confidence)
    IN IF input.version = NoString
       THEN IF ~input.presence THEN RunResult(NULL, <<>>, <<>>, 0)
            ELSE IF tier_for_confidence(Text4ShellPresenceConfidence) = NULL
            THEN RunResult(NULL, <<>>, <<ev_presence>>, 0)
            ELSE RunResult(NULL,
                    << Finding("text4shell", "Text4Shell", "CVE-2022-42889",
                               Text4ShellPresenceConfidence,
                               tier_for_confidence(Text4ShellPresenceConfidence),
                               StableIds(<<ev_presence>>)) >>,
                    <<ev_presence>>, 0)
       ELSE IF sem = NoVersion THEN RunResult(NULL, <<>>, <<>>, 0)
       ELSE IF ~semver_inclusive_between(sem, <<1, 5, 0>>, <<1, 9, 0>>)
       THEN RunResult(NULL, <<>>, <<>>, 0)
       ELSE IF oast_used /\ ~DomainUsable(oast_domain)
       THEN RunResult("ValueError", <<>>, <<ev_version>>, 0)
       ELSE IF tier = NULL
       THEN RunResult(NULL, <<>>, items, IF oast_used THEN 1 ELSE 0)
       ELSE RunResult(NULL,
                << Finding("text4shell", "Text4Shell", "CVE-2022-42889",
                           confidence, tier, ids) >>,
                items, IF oast_used THEN 1 ELSE 0)

FastjsonConfidence == 80

\* FastjsonModule.run. input: version (first fastjson jar version found in
\* the observations), presence (parser class names seen in a body)
FastjsonRun(t, input) ==
    LET sem == parse_semver(input.version)
        ev == Signal("version",
                     <<"Fastjson version confirmed as">> \o input.version, t)
        ev2 == Signal("fingerprint",
                      <<"Fastjson parser/runtime classes observed">>, t)
        confidence == FastjsonConfidence
        tier == tier_for_confidence(confidence)
    IN IF input.version = NoString THEN RunResult(NULL, <<>>, <<>>, 0)
       ELSE IF sem = NoVersion THEN RunResult(NULL, <<>>, <<>>, 0)
       ELSE IF ~semver_inclusive_between(sem, <<1, 2, 0>>, <<1, 2, 68>>)
       THEN RunResult(NULL, <<>>, <<>>, 0)
       ELSE IF ~input.presence THEN RunResult(NULL, <<>>, <<>>, 0)
       ELSE IF tier = NULL THEN RunResult(NULL, <<>>, << ev, ev2 >>, 0)
       ELSE RunResult(NULL,
                << Finding("fastjson", "Fastjson Deserialization RCE Family",
                           "CVE-2017-18349", confidence, tier,
                           StableIds(<< ev, ev2 >>)) >>,
                << ev, ev2 >>, 0)

\* a DetectionModule of another author whose run() raises
BrokenRun(t) == RunResult("RuntimeError", <<>>, <<>>, 0)

ExperimentalConfidence == 40

\* a DetectionModule of another author that reports a low-confidence guess
\* with its evidence (no shipped module reports below 60)
ExperimentalRun(t) ==
    LET ev == Signal("behavior", <<"Experimental heuristic matched">>, t)
    IN RunResult(NULL,
           << Finding("experimental", "Experimental Check", NULL,
                      ExperimentalConfidence,
                      tier_for_confidence(ExperimentalConfidence),
                      StableIds(<<ev>>)) >>,
           <<ev>>, 0)

\* A DetectionModule as the engine holds it: its name, what the scanned
\* application shows it when the host answers, and its oast_domain
Module(name, input, oast_domain) ==
    [name |-> name, input |-> input, oast_domain |-> oast_domain]

Version3(a, b, c) == << a, ".", b, ".", c >>

\* what a module gets from a host that does not answer: empty observations
\* and failed requests
NothingObserved ==
    [jar_ver |-> NoString, actuator_ver |-> NoString, java_version |-> NoString,
     web_inf |-> Unanswered, containers |-> {}, server |-> {},
     probe |-> Unanswered,
     pkg |-> Unanswered, is_object |-> FALSE,
     sections |-> [i \in 1..Len(Vm2Sections) |-> [has |-> FALSE, dep |-> NoString]],
     version |-> NoString, presence |-> FALSE, trigger |-> Unanswered]

\* the application the scanned hosts run, as each module sees it
Spring4ShellApp ==
    [NothingObserved EXCEPT
        !.jar_ver = Version3("5", "3", "17"),
        !.java_version = << "11", ".", "0", ".", "2" >>,
        !.web_inf = Answer("response", 403, {}),
        !.server = {"apache-coyote"},
        !.probe = Answer("response", 400, {"failed to bind"})]

Vm2App ==
    [NothingObserved EXCEPT
        !.pkg = Answer("response", 200, {}),
        !.is_object = TRUE,
        !.sections[2] = [has |-> TRUE, dep |-> Version3("3", "9", "18")]]

Log4ShellApp == [NothingObserved EXCEPT !.presence = TRUE]

Text4ShellApp ==
    [NothingObserved EXCEPT
        !.version = << "1", ".", "9" >>,
        !.trigger = Answer("response", 200, {})]

FastjsonApp ==
    [NothingObserved EXCEPT
        !.version = Version3("1", "2", "68"),
        !.presence = TRUE]

OastDomain == << "oast", ".", "example" >>

ModBroken == Module("broken", NothingObserved, NoString)
ModExperimental == Module("experimental", NothingObserved, NoString)
ModVm2 == Module("vm2", Vm2App, NoString)
ModFastjson == Module("fastjson", FastjsonApp, NoString)
ModLog4Shell == Module("log4shell", Log4ShellApp, NoString)
ModText4Shell == Module("text4shell", Text4ShellApp, OastDomain)
ModSpring4Shell == Module("spring4shell", Spring4ShellApp, NoString)

\* the module lists an Engine is constructed with
ModuleLists ==
    { << >>,
      << ModBroken, ModText4Shell >>,
      << ModLog4Shell, ModSpring4Shell >>,
      << ModExperimental, ModBroken, ModFastjson >>,
      << ModVm2, ModExperimental, ModLog4Shell >> }

\* await mod.run(ctx) for target t on a host in the given mode
ModuleRun(m, t, mode) ==
    LET input == IF mode = "up" THEN m.input ELSE NothingObserved
    IN CASE m.name = "spring4shell" -> Spring4ShellRun(t, input)
         [] m.name = "vm2" -> Vm2Run(t, input)
         [] m.name = "log4shell" -> Log4ShellRun(t, input, m.oast_domain)
         [] m.name = "text4shell" -> Text4ShellRun(t, input, m.oast_domain)
         [] m.name = "fastjson" -> FastjsonRun(t, input)
         [] m.name = "broken" -> BrokenRun(t)
         [] OTHER -> ExperimentalRun(t)

\* every finding is kept, whatever its tier
AcceptsAll(f, verbose) == TRUE

\* sub-threshold findings are dropped in verbose mode too
AcceptsTierOnly(f, verbose) == tier_for_confidence(f.confidence) # NULL

\* _scan_one lines 358-360: "if tier is None and not verbose: continue"
Accepts(f, verbose) ==
    ~(tier_for_confidence(f.confidence) = NULL /\ ~verbose)

\* the exception ends the module loop
AfterModuleErrorBreak(step, n) == n + 1

\* _scan_one line 355: "continue" with the next module
AfterModuleError(step, n) == step + 1

----------------------------------------------------------------------------
(* OAST listener *)

\* An interaction text is modelled by the keywords it contains (lower-cased).
InteractionSamples ==
    { {"ldap", "dns"}, {"commons", "http"}, {"dns"} }

\* OASTListener._detect_callback_type
detect_callback_type(interaction) ==
    IF "ldap" \in interaction \/ "jndi" \in interaction THEN "log4shell"
    ELSE IF "commons" \in interaction \/ "text" \in interaction THEN "text4shell"
    ELSE IF "http" \in interaction THEN "http"
    ELSE IF "dns" \in interaction THEN "dns"
    ELSE "unknown"

\* OASTListener._process_interaction: the OASTCallback appended to _callbacks
process_interaction(interaction, now) ==
    [interaction |-> interaction, timestamp |-> now, source_ip |-> NULL]

\* OASTListener.check_callbacks: the list it returns
check_callbacks(cbs) ==
    [i \in 1..Len(cbs) |->
        [type |-> detect_callback_type(cbs[i].interaction),
         interaction |-> cbs[i].interaction,
         timestamp |-> cbs[i].timestamp,
         source_ip |-> cbs[i].source_ip]]

\* OASTListener._callbacks after check_callbacks: the code leaves it as it is
callbacks_after_check(cbs) == cbs

\* what the environment does to OASTListener.initialize
OastEnvs ==
    { "interactsh",                 \* client library present, client built
      "interactsh_raises",          \* present, its constructor raises
      "missing",                    \* ImportError, OASTSimpleClient built
      "missing_fallback_raises" }   \* ImportError, fallback raises too

\* OASTListener.__init__ then initialize(): the listener object and the
\* exception that leaves initialize (NULL if none)
initialize(env) ==
    CASE env = "interactsh" ->
            [listener |-> [set |-> TRUE, client |-> "interactsh", polling |-> TRUE,
                           env |-> env],
             raises |-> NULL]
      [] env = "interactsh_raises" ->
            [listener |-> [set |-> TRUE, client |-> NULL, polling |-> FALSE,
                           env |-> env],
             raises |-> "Exception"]
      [] env = "missing" ->
            [listener |-> [set |-> TRUE, client |-> "simple", polling |-> TRUE,
                           env |-> env],
             raises |-> NULL]
      [] OTHER ->
            [listener |-> [set |-> TRUE, client |-> NULL, polling |-> FALSE,
                           env |-> env],
             raises |-> "ImportError"]

\* every callback is reported as Log4Shell
OastVulnAlwaysLog4Shell(callback_type) ==
    [vulnerability |-> "Log4Shell", cve |-> "CVE-2021-44228"]

\* _create_oast_finding_from_callback lines 387-395
OastVuln(callback_type) ==
    IF callback_type = "log4shell"
    THEN [vulnerability |-> "Log4Shell", cve |-> "CVE-2021-44228"]
    ELSE IF callback_type = "text4shell"
    THEN [vulnerability |-> "Text4Shell", cve |-> "CVE-2022-42889"]
    ELSE [vulnerability |-> "OAST Callback Detected", cve |-> NULL]

\* confidence given to an OAST finding
OastConfidence == 95

\* Engine._create_oast_finding_from_callback: the evidence item it adds and
\* the finding it returns
create_oast_finding_from_callback(cb, t) ==
    LET v == OastVuln(cb.type)
        ev == EvidenceItem("oast_callback", <<"OAST callback received", cb.type>>,
                           <<t, "">>, "OAST", NoStatus,
                           [NoDetails EXCEPT !.callback_type = cb.type,
                                             !.interaction = cb.interaction,
                                             !.timestamp = cb.timestamp])
    IN [item |-> ev,
        finding |-> Finding("oast_listener", v.vulnerability, v.cve,
                            OastConfidence, tier_for_confidence(OastConfidence),
                            << stable_id(ev) >>)]

----------------------------------------------------------------------------
(* Engine *)

\* DistributedQueueConfig: the fields _initialize_distributed_queue reads
NoDistributedQueue ==
    [enabled |-> FALSE, backend |-> "redis", master_mode |-> FALSE,
     worker_mode |-> FALSE]

DistributedQueueConfigs ==
    {NoDistributedQueue} \cup
    [enabled : {TRUE}, backend : {"redis", "zeromq", "kafka"},
     master_mode : BOOLEAN, worker_mode : BOOLEAN]

\* whether the driver package of the configured backend can be imported
DistEnvs == {"installed", "missing"}

\* redis: rpush of every target; zeromq: send_string of every target on the
\* zmq.PULL socket, which does not support sending, so the first call raises
PushAll(kind, ts) ==
    IF kind = "redis" \/ ts = <<>>
    THEN [raises |-> NULL, pushed |-> ts]
    ELSE [raises |-> "ZMQError", pushed |-> << Head(ts) >>]

\* as initialize_distributed_queue, but an unknown backend falls back to the
\* local queue
InitializeDistributedQueueFallback(dist_cfg, ts, env) ==
    IF dist_cfg.backend = "redis"
    THEN IF env = "missing"
         THEN [raises |-> "ImportError", backend |-> "none", pushed |-> <<>>]
         ELSE [raises |-> NULL, backend |-> "redis",
               pushed |-> PushAll("redis", ts).pushed]
    ELSE IF dist_cfg.backend = "zeromq"
    THEN IF env = "missing"
         THEN [raises |-> "ImportError", backend |-> "none", pushed |-> <<>>]
         ELSE IF dist_cfg.worker_mode
         THEN [raises |-> NULL, backend |-> "zeromq", pushed |-> <<>>]
         ELSE LET p == PushAll("zeromq", ts)
              IN [raises |-> p.raises,
                  backend |-> IF p.raises = NULL THEN "zeromq" ELSE "none",
                  pushed |-> p.pushed]
    ELSE [raises |-> NULL, backend |-> "local", pushed |-> <<>>]

\* Engine._initialize_distributed_queue (called with the config enabled):
\* the exception raised if any, the client object returned, and the ts
\* handed to the backend's push operation
initialize_distributed_queue(dist_cfg, ts, env) ==
    IF dist_cfg.backend = "redis"
    THEN IF env = "missing"
         THEN [raises |-> "ImportError", backend |-> "none", pushed |-> <<>>]
         ELSE [raises |-> NULL, backend |-> "redis",
               pushed |-> PushAll("redis", ts).pushed]
    ELSE IF dist_cfg.backend = "zeromq"
    THEN IF env = "missing"
         THEN [raises |-> "ImportError", backend |-> "none", pushed |-> <<>>]
         ELSE IF dist_cfg.worker_mode
         THEN [raises |-> NULL, backend |-> "zeromq", pushed |-> <<>>]
         ELSE LET p == PushAll("zeromq", ts)
              IN [raises |-> p.raises,
                  backend |-> IF p.raises = NULL THEN "zeromq" ELSE "none",
                  pushed |-> p.pushed]
    ELSE [raises |-> "ValueError", backend |-> "none", pushed |-> <<>>]

Configs ==
    { c \in [concurrency : ConcurrencyValues, verbose : BOOLEAN,
              oast : BOOLEAN, modules : ModuleLists, rate_limit : {FALSE},
              distributed_queue : DistributedQueueConfigs] :
        c.distributed_queue.enabled =>
            /\ ~c.verbose
            /\ c.modules = << ModLog4Shell, ModSpring4Shell >> }

\* Engine._oast_listener is None
NoListener == [set |-> FALSE, client |-> NULL, polling |-> FALSE, env |-> NULL]

WkIdle(pc) ==
    [pc |-> pc, exc |-> NULL, target |-> NoTarget, step |-> 0,
     observations |-> <<>>,
     evidence |-> <<>>, findings |-> <<>>, fingerprint |-> [server |-> NULL]]

\* AuroraHTTPClient: the request headers under WAF bypass

\* A header name is its lower-cased text and the way it is cased: "lower"
\* (x-real-ip), "UPPER" (X-REAL-IP), "Mixed" (X-Real-Ip, every part
\* capitalised) or "given" (a spelling that is none of these, X-Real-IP).
HeaderName(text, form) == [text |-> text, form |-> form]

\* str.lower, str.upper and "-".join(p.capitalize() for p in k.split("-"))
lower(k) == [k EXCEPT !.form = "lower"]
upper(k) == [k EXCEPT !.form = "UPPER"]
capitalize_parts(k) == [k EXCEPT !.form = "Mixed"]

\* the spellings the RANDOM strategy produces in the model: each letter is
\* flipped with probability one half, so every spelling is possible
RandomForms == {"lower", "UPPER"}

\* a dict is the sequence of its entries in insertion order, keys distinct
DictKeys(d) == { d[i].key : i \in 1..Len(d) }

\* d[k] = v
DictSet(d, k, v) ==
    IF k \in DictKeys(d)
    THEN [i \in 1..Len(d) |-> IF d[i].key = k THEN [key |-> k, value |-> v]
                              ELSE d[i]]
    ELSE Append(d, [key |-> k, value |-> v])

\* the value random.choice(spoofed_ips) yields: some generated address
SpoofedIp == "spoofed_ip"

\* WAFBypassConfig.waf_headers (default)
WafHeaders ==
    << HeaderName("x-forwarded-for", "Mixed"),
       HeaderName("x-forwarded-host", "Mixed"),
       HeaderName("x-originating-ip", "given"),
       HeaderName("x-real-ip", "given"),
       HeaderName("cf-connecting-ip", "given"),
       HeaderName("x-client-ip", "given"),
       HeaderName("x-proxy-authorization", "Mixed"),
       HeaderName("x-rewrite-url", "given"),
       HeaderName("x-original-url", "given") >>

\* WAFBypassConfig(): the defaults
WAFBypassDefault ==
    [enabled |-> FALSE, mutate_headers |-> TRUE, capitalize_headers |-> TRUE,
     header_strategies |-> << "LOWERCASE", "UPPERCASE", "MIXED" >>,
     waf_headers |-> WafHeaders]

\* the strategy pools an operator may configure; the empty pool included
StrategyPools ==
    { << "LOWERCASE", "UPPERCASE", "MIXED" >>,
      << "UPPERCASE" >>,
      << "RANDOM", "MIXED", "LOWERCASE" >>,
      << >> }

\* the WAFBypassConfig objects given to AuroraHTTPClient; the pool matters
\* only where the case rewriting runs
WAFBypassConfigs ==
    { c \in [enabled : BOOLEAN, mutate_headers : BOOLEAN,
             capitalize_headers : BOOLEAN,
             header_strategies : StrategyPools,
             waf_headers : {WafHeaders}] :
        (~c.enabled \/ ~c.capitalize_headers) =>
            c.header_strategies = WAFBypassDefault.header_strategies }

\* "for header_name in self._waf_bypass.waf_headers[:4]"
InjectedCount == 4

RECURSIVE InjectAll(_, _, _)
InjectAll(d, names, n) ==
    IF n = 0 THEN d
    ELSE DictSet(InjectAll(d, names, n - 1), names[n], SpoofedIp)

\* AuroraHTTPClient._inject_waf_bypass_headers
inject_waf_bypass_headers(cfg, headers) ==
    IF ~cfg.mutate_headers \/ ~cfg.enabled THEN headers
    ELSE LET n == IF Len(cfg.waf_headers) < InjectedCount
                  THEN Len(cfg.waf_headers) ELSE InjectedCount
         IN InjectAll(headers, cfg.waf_headers, n)

\* every request takes the first strategy of the pool
StrategyFirst(cfg, index) == cfg.header_strategies[1]

\* header_strategies[self._strategy_index % len(header_strategies)]
StrategyAt(cfg, index) ==
    cfg.header_strategies[(index % Len(cfg.header_strategies)) + 1]

\* the loop of _apply_header_capitalization over the first n entries;
\* random[i] is the spelling the RANDOM strategy gives to entry i
RECURSIVE Capitalized(_, _, _, _)
Capitalized(headers, strategy, random, n) ==
    IF n = 0 THEN << >>
    ELSE LET k == headers[n].key
             name == CASE strategy = "LOWERCASE" -> lower(k)
                       [] strategy = "UPPERCASE" -> upper(k)
                       [] strategy = "MIXED" -> capitalize_parts(k)
                       [] OTHER -> [k EXCEPT !.form = random[n]]
         IN DictSet(Capitalized(headers, strategy, random, n - 1), name,
                    headers[n].value)

\* AuroraHTTPClient._apply_header_capitalization: the exception that leaves
\* it (NULL if none), the headers it returns, the strategy it applied (NULL
\* if none) and _strategy_index afterwards
apply_header_capitalization(cfg, index, headers, random) ==
    IF ~cfg.capitalize_headers \/ ~cfg.enabled
    THEN [raises |-> NULL, headers |-> headers, strategy |-> NULL,
          index |-> index]
    ELSE IF Len(cfg.header_strategies) = 0
    THEN [raises |-> "ZeroDivisionError", headers |-> headers,
          strategy |-> NULL, index |-> index]
    ELSE LET strategy == StrategyAt(cfg, index)
         IN [raises |-> NULL,
             headers |-> Capitalized(headers, strategy, random, Len(headers)),
             strategy |-> strategy,
             index |-> index + 1]

\* a caller that is not inside AuroraHTTPClient.request
HttpIdle == [pc |-> "idle", headers |-> << >>]

\* AuroraHTTPClient.request lines 251-255: the headers handed to httpx
RequestHeaders(cfg, index, headers, random) ==
    LET req_headers == headers
    IN IF cfg.enabled
       THEN apply_header_capitalization(
                cfg, index, inject_waf_bypass_headers(cfg, req_headers), random)
       ELSE [raises |-> NULL, headers |-> req_headers, strategy |-> NULL,
             index |-> index]

\* Engine.__init__: nothing scanned yet
EngineConstructed ==
    /\ scan = "new"
    /\ scan_exc = NULL
    /\ queue = <<>>
    /\ backend = "none"
    /\ pushed = <<>>
    /\ wk = [w \in Workers |-> WkIdle("off")]
    /\ results = <<>>
    /\ total_requests = 0
    /\ completed_targets = 0
    /\ listener = NoListener
    /\ callbacks = <<>>
    /\ started = [t \in Targets |-> 0]
    /\ finding_cb_log = [t \in Targets |-> <<>>]
    /\ progress_log = <<>>
    /\ module_log = [t \in Targets |-> <<>>]
    /\ check_log = [t \in Targets |-> <<>>]
    /\ http_open = TRUE
    /\ aclose_log = <<>>
    /\ strategy_index = 0
    /\ http_pc = [c \in Callers |-> HttpIdle]
    /\ sent = <<>>

\* no pure function is being followed
NoCall == [fn |-> "none", done |-> FALSE]

----------------------------------------------------------------------------
(* RateLimiter *)

\* RateLimiter.__init__: _next_allowed = time.perf_counter()
RLInit ==
    /\ clock = 0
    /\ interval \in IntervalValues
    /\ next_allowed = 0
    /\ lock = 0
    /\ rlpc = [c \in Callers |-> "idle"]
    /\ admissions = <<>>
    /\ config = [concurrency |-> NumCallers, verbose |-> FALSE, oast |-> FALSE,
                 modules |-> << >>, rate_limit |-> TRUE,
                 distributed_queue |-> NoDistributedQueue]
    /\ host = [t \in Targets |-> "up"]
    /\ targets = TargetList
    /\ EngineConstructed
    /\ waf_bypass = WAFBypassDefault
    /\ call = NoCall

\* time passes
Tick ==
    /\ clock < MaxTime
    /\ clock' = clock + 1
    /\ UNCHANGED <<interval, next_allowed, lock, rlpc, admissions, total_requests, engvars, call>>

\* the value stored by line 120 when it runs at clock value now
NextAllowed(na, iv, now) == Max(na + iv, now)

\* RequestContext.request: "if self.limiter is not None: await self.limiter.wait()"
RLCall(c) ==
    /\ rlpc[c] = "idle"
    /\ Len(admissions) + Cardinality({d \in Callers : rlpc[d] \notin {"idle", "request"}}) < MaxAdmissions
    /\ rlpc' = [rlpc EXCEPT ![c] = "waitlock"]
    /\ UNCHANGED <<clock, interval, next_allowed, lock, admissions, total_requests, engvars, call>>

\* wait(): the lock is taken, now >= _next_allowed, so no sleep; line 120
\* runs in the same step and the lock is released
RLAdmitNow(c) ==
    /\ rlpc[c] = "waitlock"
    /\ lock = 0
    /\ ~(clock < next_allowed)
    /\ next_allowed' = NextAllowed(next_allowed, interval, clock)
    /\ admissions' = Append(admissions, [at |-> clock, slept |-> FALSE])
    /\ rlpc' = [rlpc EXCEPT ![c] = "request"]
    /\ UNCHANGED <<clock, interval, lock, total_requests, engvars, call>>

\* wait(): the lock is taken, now < _next_allowed: asyncio.sleep holding the lock
RLSleep(c) ==
    /\ rlpc[c] = "waitlock"
    /\ lock = 0
    /\ clock < next_allowed
    /\ lock' = c
    /\ rlpc' = [rlpc EXCEPT ![c] = "sleeping"]
    /\ UNCHANGED <<clock, interval, next_allowed, admissions, total_requests, engvars, call>>

\* the sleep ends no earlier than _next_allowed; line 120 runs, lock released
RLWake(c) ==
    /\ rlpc[c] = "sleeping"
    /\ lock = c
    /\ clock >= next_allowed
    /\ next_allowed' = NextAllowed(next_allowed, interval, clock)
    /\ admissions' = Append(admissions, [at |-> clock, slept |-> TRUE])
    /\ lock' = 0
    /\ rlpc' = [rlpc EXCEPT ![c] = "request"]
    /\ UNCHANGED <<clock, interval, total_requests, engvars, call>>

\* RequestContext.request: client.request returns, stats.total_requests += 1
RLRequest(c) ==
    /\ rlpc[c] = "request"
    /\ total_requests' = total_requests + 1
    /\ rlpc' = [rlpc EXCEPT ![c] = "idle"]
    /\ UNCHANGED <<clock, interval, next_allowed, lock, admissions, engvars, call>>

RLNext ==
    \/ Tick
    \/ \E c \in Callers : RLCall(c)
    \/ \E c \in Callers : RLAdmitNow(c)
    \/ \E c \in Callers : RLSleep(c)
    \/ \E c \in Callers : RLWake(c)
    \/ \E c \in Callers : RLRequest(c)

SpecRL == RLInit /\ [][RLNext]_vars

----------------------------------------------------------------------------
(* Engine.scan *)

rlidle == <<clock, interval, next_allowed, lock, rlpc, admissions>>

\* how the targets of one scan answer: at most one of them is unreachable or
\* malformed, and a scan with the OAST listener meets reachable targets only
HostMaps(cfg) ==
    { h \in [Targets -> HostModes] :
        Cardinality({t \in Targets : h[t] # "up"}) <= IF cfg.oast THEN 0 ELSE 1 }

Init ==
    /\ clock = 0
    /\ interval = 0
    /\ next_allowed = 0
    /\ lock = 0
    /\ rlpc = [c \in Callers |-> "idle"]
    /\ admissions = <<>>
    /\ config \in Configs
    /\ host \in HostMaps(config)
    /\ targets = TargetList
    /\ EngineConstructed
    /\ waf_bypass = WAFBypassDefault
    /\ call = NoCall

NumModules == Len(config.modules)

\* the update does not reach the counter
IncrementLost(counter) == counter

\* "self.stats.total_requests += 1", "self.stats.completed_targets += 1":
\* read, add and store with no await in between
Increment(counter) == counter + 1

\* workers keep running after gather has raised, until the loop is closed
Active == scan \in {"running", "raised"}

\* queue.get() in place of get_nowait(): the call waits while the queue is
\* empty
GetTargetWaiting(q) ==
    IF q = <<>> THEN [returns |-> FALSE, target |-> NoTarget, queue |-> q]
    ELSE [returns |-> TRUE, target |-> Head(q), queue |-> Tail(q)]

\* Engine._get_target_from_queue on the local queue: get_nowait returns at
\* once, QueueEmpty becomes None
get_target_from_queue(q) ==
    IF q = <<>> THEN [returns |-> TRUE, target |-> NoTarget, queue |-> q]
    ELSE [returns |-> TRUE, target |-> Head(q), queue |-> Tail(q)]

\* Engine.scan lines 233-253 and 268: build the queue (the local one, or the
\* client of the distributed backend), initialise the OAST listener (only
\* ImportError is caught), create the workers
ScanStart(env, denv) ==
    /\ scan = "new"
    /\ LET dq == IF config.distributed_queue.enabled
                 THEN initialize_distributed_queue(config.distributed_queue,
                                                   targets, denv)
                 ELSE [raises |-> NULL, backend |-> "local", pushed |-> <<>>]
           init == IF config.oast THEN initialize(env)
                   ELSE [listener |-> NoListener, raises |-> NULL]
       IN /\ pushed' = dq.pushed
          /\ backend' = dq.backend
          /\ queue' = IF dq.backend = "local" THEN targets ELSE <<>>
          /\ IF dq.raises # NULL
             THEN /\ scan' = "raised"
                  /\ scan_exc' = dq.raises
                  /\ listener' = listener
                  /\ wk' = wk
             ELSE /\ listener' = init.listener
                  /\ IF init.raises \in {NULL, "ImportError"}
                     THEN /\ scan' = "running"
                          /\ scan_exc' = NULL
                          /\ wk' = [w \in Workers |->
                                      IF w <= Max(1, config.concurrency)
                                      THEN WkIdle("get") ELSE WkIdle("off")]
                     ELSE /\ scan' = "raised"
                          /\ scan_exc' = init.raises
                          /\ wk' = wk
    /\ UNCHANGED <<rlidle, call, targets, httpvars, config, host, results, total_requests,
                   completed_targets, callbacks, started, finding_cb_log,
                   progress_log, module_log, check_log>>

\* worker(): take the next target or return; _scan_one starts and sends the
\* first baseline request. A distributed backend's client has no get_async
\* method, so line 231 raises AttributeError
\* one items list serves every store: a new store starts with what the
\* last delivered one holds
EvidenceStoreShared(rs) ==
    IF rs = << >> THEN << >> ELSE rs[Len(rs)].evidence

\* "evidence = EvidenceStore()" (_scan_one, line 308), with
\* items = field(default_factory=list): a list of its own, empty, whatever
\* the stores of the results rs hold
EvidenceStore(rs) == << >>

WorkerGet(w) ==
    /\ Active
    /\ wk[w].pc = "get"
    /\ IF backend # "local"
       THEN /\ wk' = [wk EXCEPT ![w].pc = "failed",
                                ![w].exc = "AttributeError"]
            /\ UNCHANGED <<queue, started>>
       ELSE LET g == get_target_from_queue(queue)
            IN /\ g.returns
               /\ queue' = g.queue
               /\ IF g.target = NoTarget
                  THEN /\ wk' = [wk EXCEPT ![w] = WkIdle("done")]
                       /\ started' = started
                  ELSE /\ wk' = [wk EXCEPT ![w] =
                                   [WkIdle("probe") EXCEPT
                                        !.target = g.target,
                                        !.step = 1,
                                        !.evidence = EvidenceStore(results)]]
                       /\ started' = [started EXCEPT ![g.target] = @ + 1]
    /\ UNCHANGED <<rlidle, call, targets, httpvars, scan_exc, backend, pushed, config, host, scan,
                   results, total_requests, completed_targets, listener,
                   callbacks, finding_cb_log, progress_log, module_log,
                   check_log>>

\* _scan_one lines 313-332: one baseline request completes through
\* RequestContext.request; after the sixth the fingerprint is derived
WorkerProbe(w) ==
    /\ Active
    /\ wk[w].pc = "probe"
    /\ LET t == wk[w].target
           r == ClientRequest("GET", <<t, BaselinePaths[wk[w].step]>>,
                              Outcome(host[t]))
           obs == Append(wk[w].observations, r.result)
           ev == Append(wk[w].evidence, r.item)
           fp == fingerprint_from_observations(obs)
       IN IF r.raises # NULL
          THEN /\ wk' = [wk EXCEPT ![w].pc = "failed", ![w].exc = r.raises]
               /\ total_requests' = total_requests
          ELSE /\ total_requests' = Increment(total_requests)
               /\ wk' = [wk EXCEPT ![w] =
                    IF wk[w].step < Len(BaselinePaths)
                    THEN [@ EXCEPT !.observations = obs, !.evidence = ev,
                                   !.step = @ + 1]
                    ELSE [@ EXCEPT !.observations = obs,
                                   !.evidence = ev \o fp.items,
                                   !.fingerprint = fp.fp,
                                   !.pc = IF NumModules = 0 THEN "oast"
                                          ELSE "module",
                                   !.step = 1]]
    /\ UNCHANGED <<rlidle, call, targets, httpvars, scan_exc, backend, pushed, config, host, scan, queue, results,
                   completed_targets, listener, callbacks, started,
                   finding_cb_log, progress_log, module_log, check_log>>

\* _scan_one lines 343-363: one module of the loop, with the requests the
\* module sends through RequestContext.request
\* every finding is handed to the callback twice
FindingCallbacksTwice(log, fs) == log \o fs \o fs

\* "await self._finding_cb(target, f)" right after each findings.append(f)
\* (lines 361-363 and 371-373): the calls made for the findings fs
FindingCallbacks(log, fs) == log \o fs

WorkerModule(w) ==
    /\ Active
    /\ wk[w].pc = "module"
    /\ LET t == wk[w].target
           m == config.modules[wk[w].step]
           run == ModuleRun(m, t, host[t])
           raised == run.raises # NULL
           mod_findings == IF raised THEN <<>> ELSE run.findings
           mod_items == run.items
           err_items ==
               IF raised /\ config.verbose
               THEN << EvidenceItem("module_error", <<m.name, "raised">>,
                                    <<t, "">>, "MODULE", NoStatus, NoDetails) >>
               ELSE <<>>
           accepted == SelectSeq(mod_findings,
                                 LAMBDA f : Accepts(f, config.verbose))
           next == IF raised THEN AfterModuleError(wk[w].step, NumModules)
                   ELSE wk[w].step + 1
       IN /\ wk' = [wk EXCEPT ![w] =
                [@ EXCEPT !.evidence = @ \o mod_items \o err_items,
                          !.findings = @ \o accepted,
                          !.step = next,
                          !.pc = IF next > NumModules THEN "oast" ELSE "module"]]
          /\ finding_cb_log' = [finding_cb_log EXCEPT ![t] =
                FindingCallbacks(@, accepted)]
          /\ module_log' = [module_log EXCEPT ![t] =
                Append(@, [name |-> m.name, raised |-> raised,
                           returned |-> mod_findings,
                           requests |-> run.requests])]
          /\ total_requests' = total_requests + run.requests
    /\ UNCHANGED <<rlidle, call, targets, httpvars, scan_exc, backend, pushed, config, host, scan,
                   queue, results, completed_targets, listener, callbacks,
                   started, progress_log, check_log>>

\* _scan_one lines 365-378 and worker() lines 261-266: convert what
\* check_callbacks returns, sort, append the result, count, progress callback.
\* check_callbacks, the callbacks of aurora.py and the uncontended lock do not
\* suspend, so the event loop runs this as one step
WorkerOast(w) ==
    /\ Active
    /\ wk[w].pc = "oast"
    /\ LET t == wk[w].target
           cbs == IF listener.set THEN check_callbacks(callbacks) ELSE <<>>
           conv == [i \in 1..Len(cbs) |->
                       create_oast_finding_from_callback(cbs[i], t)]
           oast_findings == [i \in 1..Len(cbs) |-> conv[i].finding]
           oast_items == [i \in 1..Len(cbs) |-> conv[i].item]
       IN /\ results' = Append(results,
                [target |-> t,
                 fingerprint |-> wk[w].fingerprint,
                 findings |-> SortFindings(wk[w].findings \o oast_findings),
                 evidence |-> wk[w].evidence \o oast_items])
          /\ finding_cb_log' = [finding_cb_log EXCEPT ![t] =
                FindingCallbacks(@, oast_findings)]
          /\ callbacks' = IF listener.set THEN callbacks_after_check(callbacks)
                          ELSE callbacks
          /\ check_log' = [check_log EXCEPT ![t] = cbs]
    /\ completed_targets' = Increment(completed_targets)
    /\ progress_log' = Append(progress_log,
                              <<Increment(completed_targets), Len(targets)>>)
    /\ wk' = [wk EXCEPT ![w] = WkIdle("get")]
    /\ UNCHANGED <<rlidle, call, targets, httpvars, scan_exc, backend, pushed, config, host, scan, queue, total_requests,
                   listener, started, module_log>>

\* scan() line 269-271: gather returns when every worker has returned
ScanReturn ==
    /\ scan = "running"
    /\ \A w \in Workers : wk[w].pc \in {"done", "off"}
    /\ scan' = "returned"
    /\ UNCHANGED <<rlidle, call, targets, httpvars, scan_exc, backend, pushed, config, host, queue,
                   wk, results, total_requests, completed_targets, listener, callbacks, started,
                   finding_cb_log, progress_log, module_log, check_log>>

\* scan() line 269: gather re-raises the first exception of a worker
ScanRaise ==
    /\ scan = "running"
    /\ \E w \in Workers :
          /\ wk[w].pc = "failed"
          /\ scan_exc' = wk[w].exc
    /\ scan' = "raised"
    /\ UNCHANGED <<rlidle, call, targets, httpvars, backend, pushed, config, host, queue, wk, results,
                   total_requests, completed_targets, listener, callbacks, started,
                   finding_cb_log, progress_log, module_log, check_log>>

\* what one poll of the client yields
PollResults(client) ==
    IF client = "interactsh" /\ Len(callbacks) < MaxCallbacks
    THEN { <<i>> : i \in InteractionSamples }
    ELSE { }

\* OASTListener._poll_for_callbacks: one round that brings an interaction
\* (OASTSimpleClient.poll always returns the empty list)
PollForCallbacks ==
    /\ scan = "running"
    /\ listener.polling
    /\ \E new \in PollResults(listener.client) :
          callbacks' = callbacks \o
              [i \in 1..Len(new) |->
                  process_interaction(new[i], Len(callbacks) + i)]
    /\ UNCHANGED <<rlidle, call, targets, httpvars, scan_exc, backend, pushed, config, host, scan, queue, wk, results,
                   total_requests, completed_targets, listener, started,
                   finding_cb_log, progress_log, module_log, check_log>>

Next ==
    \/ \E env \in OastEnvs, denv \in DistEnvs : ScanStart(env, denv)
    \/ \E w \in Workers : WorkerGet(w)
    \/ \E w \in Workers : WorkerProbe(w)
    \/ \E w \in Workers : WorkerModule(w)
    \/ \E w \in Workers : WorkerOast(w)
    \/ ScanReturn
    \/ ScanRaise
    \/ PollForCallbacks

Spec == Init /\ [][Next]_vars

\* the target lists Engine.scan may be given: every prefix of TargetList,
\* the empty list included
TargetLists == { SubSeq(TargetList, 1, n) : n \in 0..NumTargets }

\* engines on the local queue, with every concurrency value
LiveConfigs ==
    { c \in Configs :
        /\ ~c.distributed_queue.enabled
        /\ ~c.verbose
        /\ c.oast => c.modules = << >> }

\* scans of any target list; hosts that are not scanned play no part
LiveInit ==
    /\ clock = 0
    /\ interval = 0
    /\ next_allowed = 0
    /\ lock = 0
    /\ rlpc = [c \in Callers |-> "idle"]
    /\ admissions = <<>>
    /\ config \in LiveConfigs
    /\ targets \in TargetLists
    /\ host \in { h \in HostMaps(config) :
                    \A t \in Targets \ Range(targets) : h[t] = "up" }
    /\ EngineConstructed
    /\ waf_bypass = WAFBypassDefault
    /\ call = NoCall

\* some worker has module runs or the final steps of _scan_one ahead of it:
\* ENABLED of the WorkerModule and WorkerOast steps, written out
PipelinePending ==
    Active /\ \E w \in Workers : wk[w].pc \in {"module", "oast"}

\* The event loop runs every task that is ready: the caller's scan(), a
\* worker whose call on the queue has returned or whose request has
\* completed, and gather once it has an outcome. Every module run completes
\* and the steps after it do not wait (weak fairness of WorkerModule and
\* WorkerOast, with the enabling condition written out). Nothing obliges the
\* OAST server to send interactions.
Fairness ==
    /\ WF_vars(\E env \in OastEnvs, denv \in DistEnvs : ScanStart(env, denv))
    /\ WF_vars(\E w \in Workers : WorkerGet(w))
    /\ WF_vars(\E w \in Workers : WorkerProbe(w))
    /\ WF_vars(ScanReturn)
    /\ WF_vars(ScanRaise)
    /\ \/ []<>(~PipelinePending)
       \/ []<><<\E w \in Workers : WorkerModule(w) \/ WorkerOast(w)>>_vars

SpecLive == LiveInit /\ [][Next]_vars /\ Fairness

----------------------------------------------------------------------------
(* AuroraHTTPClient.request: concurrent callers of the shared client *)

\* calls of AuroraHTTPClient.request in one run
MaxRequests == 2

\* header values the callers pass
JndiPayload == "jndi_payload"

\* the headers argument of the callers: none (the baseline probes), the
\* Log4Shell trigger's (log4shell.py lines 91-95), and a mapping whose keys
\* differ in case only
CallerHeaders ==
    { << >>,
      << [key |-> HeaderName("user-agent", "Mixed"), value |-> JndiPayload],
         [key |-> HeaderName("x-api-version", "Mixed"), value |-> JndiPayload],
         [key |-> HeaderName("x-forwarded-for", "Mixed"), value |-> JndiPayload] >>,
      << [key |-> HeaderName("x-token", "lower"), value |-> "a"],
         [key |-> HeaderName("x-token", "Mixed"), value |-> "b"] >> }

\* what random.random() can make of the n entries of one request: one
\* spelling per entry under RANDOM, nothing to draw under the others
RandomDraws(cfg, index, n) ==
    IF /\ cfg.enabled
       /\ cfg.capitalize_headers
       /\ Len(cfg.header_strategies) > 0
       /\ StrategyAt(cfg, index) = "RANDOM"
    THEN [1..n -> RandomForms]
    ELSE { [i \in 1..n |-> "lower"] }

HttpInFlight == Cardinality({ c \in Callers : http_pc[c].pc = "stealth" })

\* request() is entered: lines 246-249, up to the stealth delay
HttpCall(c, headers) ==
    /\ http_open
    /\ http_pc[c].pc = "idle"
    /\ Len(sent) + HttpInFlight < MaxRequests
    /\ http_pc' = [http_pc EXCEPT ![c] = [pc |-> "stealth", headers |-> headers]]
    /\ UNCHANGED <<rlvars, total_requests, config, host, targets, scan, scan_exc,
                   queue, backend, pushed, wk, results, completed_targets,
                   listener, callbacks, started, finding_cb_log, progress_log,
                   module_log, check_log, http_open, aclose_log, waf_bypass,
                   strategy_index, sent, call>>

\* lines 251-262: the headers are built and the request is handed to httpx;
\* an exception of the header rewriting leaves request()
HttpSend(c) ==
    /\ http_pc[c].pc = "stealth"
    /\ LET given == http_pc[c].headers
           n == Len(inject_waf_bypass_headers(waf_bypass, given))
       IN \E random \in RandomDraws(waf_bypass, strategy_index, n) :
            LET r == RequestHeaders(waf_bypass, strategy_index, given, random)
            IN /\ sent' = Append(sent,
                     [caller |-> c, given |-> given, raises |-> r.raises,
                      headers |-> r.headers, strategy |-> r.strategy,
                      index |-> strategy_index])
               /\ strategy_index' = r.index
               /\ http_pc' = [http_pc EXCEPT ![c] =
                     IF r.raises = NULL THEN [pc |-> "httpx", headers |-> << >>]
                     ELSE HttpIdle]
    /\ UNCHANGED <<rlvars, total_requests, config, host, targets, scan, scan_exc,
                   queue, backend, pushed, wk, results, completed_targets,
                   listener, callbacks, started, finding_cb_log, progress_log,
                   module_log, check_log, http_open, aclose_log, waf_bypass,
                   call>>

\* lines 262-305: httpx answers or fails, request() returns
HttpReturn(c) ==
    /\ http_pc[c].pc = "httpx"
    /\ http_pc' = [http_pc EXCEPT ![c] = HttpIdle]
    /\ UNCHANGED <<rlvars, total_requests, config, host, targets, scan, scan_exc,
                   queue, backend, pushed, wk, results, completed_targets,
                   listener, callbacks, started, finding_cb_log, progress_log,
                   module_log, check_log, http_open, aclose_log, waf_bypass,
                   strategy_index, sent, call>>

\* AuroraHTTPClient.__init__ with any WAFBypassConfig
HttpInit ==
    /\ clock = 0
    /\ interval = 0
    /\ next_allowed = 0
    /\ lock = 0
    /\ rlpc = [c \in Callers |-> "idle"]
    /\ admissions = <<>>
    /\ config = [concurrency |-> NumCallers, verbose |-> FALSE, oast |-> FALSE,
                 modules |-> << >>, rate_limit |-> FALSE,
                 distributed_queue |-> NoDistributedQueue]
    /\ host = [t \in Targets |-> "up"]
    /\ targets = TargetList
    /\ EngineConstructed
    /\ waf_bypass \in WAFBypassConfigs
    /\ call = NoCall

HttpNext ==
    \/ \E c \in Callers, headers \in CallerHeaders : HttpCall(c, headers)
    \/ \E c \in Callers : HttpSend(c)
    \/ \E c \in Callers : HttpReturn(c)

SpecHttp == HttpInit /\ [][HttpNext]_vars

----------------------------------------------------------------------------
(* Engine.aclose after the scan (aurora.py lines 217-219) *)

\* calls of Engine.aclose in one run
MaxAcloseCalls == 2

\* the polling task is left as it is
LeaveTask(l) == l

\* "self._polling_task.cancel()" and "await self._polling_task": the task,
\* suspended in poll() or in sleep(), gets CancelledError there, which
\* "except Exception" does not catch, and never runs its loop again; no
\* task, or a finished one, is left as it is
CancelTask(l) == [l EXCEPT !.polling = FALSE]

\* lines 168-172, "self._client.close()": skipped without a client, absent
\* from OASTSimpleClient; what the interactsh client offers and does is up
\* to that library
CloseOutcomes(client) ==
    CASE client = NULL -> {"skipped"}
      [] client = "simple" -> {"absent"}
      [] OTHER -> {"absent", "returns", "raises"}

AcloseIdle ==
    IF aclose_log = << >> THEN TRUE
    ELSE aclose_log[Len(aclose_log)].pc = "returned"

\* _poll_for_callbacks goes on after scan() has ended, until it is cancelled
PollAfterScan ==
    /\ scan \in {"returned", "raised"}
    /\ listener.polling
    /\ \E new \in PollResults(listener.client) :
          callbacks' = callbacks \o
              [i \in 1..Len(new) |->
                  process_interaction(new[i], Len(callbacks) + i)]
    /\ UNCHANGED <<rlidle, call, targets, httpvars, scan_exc, backend, pushed,
                   config, host, scan, queue, wk, results, total_requests,
                   completed_targets, listener, started, finding_cb_log,
                   progress_log, module_log, check_log>>

\* Engine.aclose up to its first await: with a listener, OASTListener.aclose
\* lines 161-166; without one, the HTTP client is closed at once
EngineAcloseBegin ==
    /\ scan \in {"returned", "raised"}
    /\ AcloseIdle
    /\ Len(aclose_log) < MaxAcloseCalls
    /\ IF listener.set
       THEN /\ listener' = CancelTask(listener)
            /\ aclose_log' = Append(aclose_log,
                  [pc |-> "listener", listener |-> TRUE,
                   task |-> listener.polling, close |-> NULL,
                   listener_raises |-> NULL])
            /\ UNCHANGED http_open
       ELSE /\ http_open' = FALSE
            /\ aclose_log' = Append(aclose_log,
                  [pc |-> "returned", listener |-> FALSE, task |-> FALSE,
                   close |-> NULL, listener_raises |-> NULL])
            /\ UNCHANGED listener
    /\ UNCHANGED <<rlidle, call, targets, scan_exc, backend, pushed, config,
                   host, scan, queue, wk, results, total_requests,
                   completed_targets, callbacks, started, finding_cb_log,
                   progress_log, module_log, check_log, waf_bypass,
                   strategy_index, http_pc, sent>>

\* the rest of OASTListener.aclose (lines 168-172), "except Exception: pass"
\* and "await self._http_client.aclose()" of Engine.aclose
EngineAcloseEnd ==
    /\ ~AcloseIdle
    /\ \E out \in CloseOutcomes(listener.client) :
          aclose_log' = [aclose_log EXCEPT ![Len(aclose_log)] =
              [@ EXCEPT !.pc = "returned", !.close = out,
                        !.listener_raises =
                            IF out = "raises" THEN "Exception" ELSE NULL]]
    /\ http_open' = FALSE
    /\ UNCHANGED <<rlidle, call, targets, scan_exc, backend, pushed, config,
                   host, scan, queue, wk, results, total_requests,
                   completed_targets, listener, callbacks, started,
                   finding_cb_log, progress_log, module_log, check_log,
                   waf_bypass, strategy_index, http_pc, sent>>

\* the scan, then the shutdown; workers that a raised scan left behind are
\* not followed once aclose has begun
CloseNext ==
    \/ aclose_log = << >> /\ Next
    \/ PollAfterScan
    \/ EngineAcloseBegin
    \/ EngineAcloseEnd

SpecClose == LiveInit /\ [][CloseNext]_vars

----------------------------------------------------------------------------
(* Single calls of the pure functions and of the modules' run() *)

\* confidences given to tier_for_confidence: 0..MaxConfidence
MaxConfidence == 100

\* version strings an application may show (jar names, actuator values,
\* package.json entries)
Version4(a, b, c, d) == << a, ".", b, ".", c, ".", d >>

SpringVersionStrings ==
    { Version3("5", "3", "0"), Version3("5", "3", "17"),
      Version3("5", "3", "18"), Version3("5", "2", "20"),
      Version3("5", "1", "9"), Version3("4", "3", "20"),
      Version3("10", "0", "0"),
      Version4("5", "2", "19", "RELEASE"),
      << "5", ".", "3" >> }

JavaVersionStrings ==
    { NoString, << "1", ".", "8", ".", "0", "_", "292" >>, << "9" >>,
      << "11", ".", "0", ".", "2" >> }

\* what the application shows Spring4ShellModule
Spring4ShellInputs ==
    { [NothingObserved EXCEPT
          !.jar_ver = v[1], !.actuator_ver = v[2], !.java_version = j,
          !.web_inf = w, !.containers = c[1], !.server = c[2], !.probe = p] :
        v \in ({NoString} \X (SpringVersionStrings \cup {NoString}))
                \cup { << Version3("5", "3", "17"), NoString >>,
                       << Version3("5", "3", "18"), Version3("5", "3", "0") >> },
        j \in JavaVersionStrings,
        w \in { Answer("response", 401, {}), Answer("response", 403, {}),
                Answer("response", 404, {}), Unanswered },
        c \in { << {"tomcat"}, {} >>, << {}, {"apache-coyote"} >>,
                << {}, {"tomcat"} >>, << {}, {"nginx"} >>, << {}, {} >> },
        p \in { Answer("response", 400, {"failed to bind"}),
                Answer("response", 422, {"classloader"}),
                Answer("response", 500, {"org.springframework.beans"}),
                Answer("response", 500, {}),
                Answer("response", 200, {"failed to bind"}),
                Unanswered } }

Vm2VersionStrings ==
    { Version3("3", "9", "18"), Version3("3", "9", "17"),
      Version3("3", "9", "19"), Version3("3", "10", "0"),
      Version3("4", "0", "0"), Version3("0", "0", "0"),
      Version4("3", "9", "18", "0"), Version4("3", "9", "18", "1"),
      << "^" >> \o Version3("3", "9", "18"),
      << "~" >> \o Version3("3", "9", "18"),
      Version3("3", "9", "18") \o << "-", "beta" >>,
      << " " >> \o Version3("3", "9", "18") \o << " " >>,
      << "3", ".", "9" >> }

NoEntry == [has |-> FALSE, dep |-> NoString]

Entry(dep) == [has |-> TRUE, dep |-> dep]

\* what the application shows Vm2Module
Vm2Inputs ==
    { [NothingObserved EXCEPT
          !.pkg = a[1], !.is_object = a[2], !.sections = << s1, s2, s3 >>] :
        a \in { << Answer("response", 200, {}), TRUE >>,
                << Answer("response", 200, {}), FALSE >>,
                << Answer("response", 404, {}), TRUE >>,
                << Unanswered, FALSE >> },
        s1 \in {NoEntry} \cup { Entry(d) : d \in Vm2VersionStrings },
        s2 \in { NoEntry, Entry(Version3("3", "9", "18")),
                 Entry(<< "^" >> \o Version3("3", "9", "18")) },
        s3 \in { NoEntry, Entry(Version3("3", "9", "17")) } }

Log4jVersionStrings ==
    { NoString, Version3("2", "14", "1"), Version3("2", "15", "0"),
      Version3("2", "0", "0"), Version3("1", "2", "17") }

CommonsTextVersionStrings ==
    { NoString, << "1", ".", "9" >>, Version3("1", "5", "0"),
      Version3("1", "10", "0"), Version3("1", "4", "0") }

\* what the application shows Log4ShellModule / Text4ShellModule
TriggerInputs(versions) ==
    { [NothingObserved EXCEPT !.version = v, !.presence = p, !.trigger = a] :
        v \in versions, p \in BOOLEAN,
        a \in { Answer("response", 200, {}), Unanswered } }

\* oast_domain given to the module: none, a domain, a domain of dots only
OastDomains == { NoString, OastDomain, << "." >> }

\* the --scheme option of aurora.py
DefaultScheme == "https"

UrlSchemes == { "http", "HTTP", "https", "Https" }

UrlHosts == { "example.com", "Example.COM" }

UrlPaths ==
    { <<>>, << "/" >>, << "/", "a" >>, << "/", "a", "/" >>, << "/", "A" >> }

\* raw targets as the operator writes them: with or without a scheme, with
\* or without blanks around, and some that are no URL
UrlInputs ==
    { [scheme |-> sc, host |-> h, path |-> p,
       raw |-> b \o << sc, "://", h >> \o p \o b] :
          sc \in UrlSchemes, h \in UrlHosts, p \in UrlPaths,
          b \in { <<>>, << " " >> } }
    \cup { [scheme |-> DefaultScheme, host |-> h, path |-> p,
             raw |-> << h >> \o p] : h \in UrlHosts, p \in UrlPaths }
    \cup { [scheme |-> "", host |-> "", path |-> <<>>, raw |-> r] :
             r \in { <<>>, << " " >>, << "://", "example.com" >> } }

PendingCall(fn, input, oast_domain) ==
    [fn |-> fn, input |-> input, oast_domain |-> oast_domain, done |-> FALSE]

Calls ==
    { PendingCall("tier_for_confidence", [confidence |-> c], NoString) :
          c \in 0..MaxConfidence }
    \cup { PendingCall("spring4shell", i, NoString) : i \in Spring4ShellInputs }
    \cup { PendingCall("vm2", i, NoString) : i \in Vm2Inputs }
    \cup { PendingCall("log4shell", i, d) :
              i \in TriggerInputs(Log4jVersionStrings), d \in OastDomains }
    \cup { PendingCall("text4shell", i, d) :
              i \in TriggerInputs(CommonsTextVersionStrings), d \in OastDomains }
    \cup { PendingCall("normalize_url", i, NoString) : i \in UrlInputs }

\* a fresh engine that is never started, and one call about to be made
CallsInit ==
    /\ clock = 0
    /\ interval = 0
    /\ next_allowed = 0
    /\ lock = 0
    /\ rlpc = [c \in Callers |-> "idle"]
    /\ admissions = <<>>
    /\ config = [concurrency |-> 1, verbose |-> FALSE, oast |-> FALSE,
                 modules |-> << >>, rate_limit |-> FALSE,
                 distributed_queue |-> NoDistributedQueue]
    /\ host = [t \in Targets |-> "up"]
    /\ targets = TargetList
    /\ EngineConstructed
    /\ waf_bypass = WAFBypassDefault
    /\ call \in Calls

\* the call returns r
Return(r) ==
    /\ ~call.done
    /\ call' = [fn |-> call.fn, input |-> call.input,
                oast_domain |-> call.oast_domain, done |-> TRUE, result |-> r]
    /\ UNCHANGED <<rlvars, total_requests, engvars>>

CallTier ==
    /\ call.fn = "tier_for_confidence"
    /\ Return(tier_for_confidence(call.input.confidence))

\* the target of the module runs
CallTarget == 1

CallSpring4Shell ==
    /\ call.fn = "spring4shell"
    /\ Return(Spring4ShellRun(CallTarget, call.input))

CallVm2 ==
    /\ call.fn = "vm2"
    /\ Return(Vm2Run(CallTarget, call.input))

CallLog4Shell ==
    /\ call.fn = "log4shell"
    /\ Return(Log4ShellRun(CallTarget, call.input, call.oast_domain))

CallText4Shell ==
    /\ call.fn = "text4shell"
    /\ Return(Text4ShellRun(CallTarget, call.input, call.oast_domain))

\* aurora.py line 166
CallNormalizeUrl ==
    /\ call.fn = "normalize_url"
    /\ Return(normalize_url(call.input.raw, DefaultScheme))

CallsNext ==
    \/ CallNormalizeUrl
    \/ CallTier
    \/ CallSpring4Shell
    \/ CallVm2
    \/ CallLog4Shell
    \/ CallText4Shell

SpecCalls == CallsInit /\ [][CallsNext]_vars

----------------------------------------------------------------------------
(* C1 *)

\* C1: any two successive admissions by the shared RateLimiter are at least
\* one interval apart, so k admissions span at least (k-1) intervals.
C1_MinGap ==
    \A i \in 1..(Len(admissions) - 1) :
        admissions[i + 1].at - admissions[i].at >= interval

----------------------------------------------------------------------------
(* Helpers of the properties *)

ResultsOf(t) == { i \in 1..Len(results) : results[i].target = t }

OastFindings(fs) == SelectSeq(fs, LAMBDA f : f.module = "oast_listener")

\* all findings that exist for a target: in a worker's locals or in a result
FindingLists ==
    { results[i].findings : i \in 1..Len(results) }
        \cup { wk[w].findings : w \in Workers }

----------------------------------------------------------------------------
(* C2 *)

\* C2: with the local queue (OAST off), whatever the concurrency and the
\* interleaving, scan() runs the pipeline exactly once per target and
\* returns one ScanResult per target: no target is run or reported twice,
\* scan() does not end without a result list, and the list it returns has
\* one entry per target.
C2_ExactlyOncePerTarget ==
    (~config.oast /\ ~config.distributed_queue.enabled) =>
        /\ \A t \in Targets :
              started[t] <= 1 /\ Cardinality(ResultsOf(t)) <= 1
        /\ scan # "raised"
        /\ scan = "returned" =>
              /\ Len(results) = NumTargets
              /\ \A t \in Targets :
                    started[t] = 1 /\ Cardinality(ResultsOf(t)) = 1

----------------------------------------------------------------------------
(* C3 *)

\* the findings a module returned that have a tier
TieredOf(entry) == { f \in Range(entry.returned) : f.tier # NULL }

\* C3: a module whose run() raises stops nothing: the worker goes on with
\* the next module (every module of the list is run for the target, in
\* order), the findings of the other modules are in the target's
\* ScanResult, no worker ever fails in or after module dispatch, and when
\* scan() returns every target has its result.
C3_ModuleErrorIsolated ==
    /\ \A w \in Workers :
          LET t == wk[w].target
          IN /\ wk[w].pc = "module" => wk[w].step = Len(module_log[t]) + 1
             /\ wk[w].pc = "oast" =>
                    Len(module_log[t]) = NumModules
             /\ (wk[w].pc = "failed" /\ t # NoTarget) => module_log[t] = <<>>
    /\ \A i \in 1..Len(results) :
          LET log == module_log[results[i].target]
          IN /\ Len(log) = NumModules
             /\ \A k \in 1..NumModules :
                   /\ log[k].name = config.modules[k].name
                   /\ TieredOf(log[k]) \subseteq Range(results[i].findings)
    /\ scan = "returned" => \A t \in Targets : ResultsOf(t) # {}

\* a module raised for a target whose result holds a later module's
\* finding, and the scan went on to finish the other targets
C3_Witness ==
    /\ scan = "returned"
    /\ Len(results) = NumTargets
    /\ \E i \in 1..Len(results) :
          LET log == module_log[results[i].target]
          IN \E k \in 1..Len(log) :
                /\ log[k].raised
                /\ \E j \in (k + 1)..Len(log) :
                      /\ TieredOf(log[j]) # {}
                      /\ TieredOf(log[j]) \subseteq Range(results[i].findings)

----------------------------------------------------------------------------
(* C4 *)

HttpItems(ev) == SelectSeq(ev, LAMBDA it : it.kind = "http")

\* C4: AuroraHTTPClient.request never raises to its caller: no pipeline
\* fails in a baseline probe; a failed request is an HTTPResult with null
\* status and a <request_error> body, with one http evidence item; so every
\* pipeline issues the six baseline probes in order and reaches dispatch.
C4_RequestNeverRaises ==
    \A w \in Workers :
        /\ ~(wk[w].pc = "failed" /\ wk[w].target # NoTarget)
        /\ wk[w].pc \in {"module", "oast"} =>
              /\ Len(wk[w].observations) = Len(BaselinePaths)
              /\ \A k \in 1..Len(BaselinePaths) :
                    LET o == wk[w].observations[k]
                    IN /\ o.url = <<wk[w].target, BaselinePaths[k]>>
                       /\ o.status_code = NoStatus =>
                              o.body_sample = "<request_error>"
                       /\ HttpItems(wk[w].evidence)[k].url = o.url
                       /\ HttpItems(wk[w].evidence)[k].status_code = o.status_code

----------------------------------------------------------------------------
(* C5 *)

\* f may stand before g under the key (-confidence, vulnerability, module)
InOrder(f, g) ==
    \/ f.confidence > g.confidence
    \/ /\ f.confidence = g.confidence
       /\ StrRank(f.vulnerability) < StrRank(g.vulnerability)
    \/ /\ f.confidence = g.confidence
       /\ f.vulnerability = g.vulnerability
       /\ StrRank(f.module) <= StrRank(g.module)

\* C5: in every ScanResult the findings (module and OAST findings) are in
\* ascending order of (-confidence, vulnerability, module).
C5_FindingsSorted ==
    \A i \in 1..Len(results) :
        LET fs == results[i].findings
        IN \A a \in 1..Len(fs) : \A b \in (a + 1)..Len(fs) : InOrder(fs[a], fs[b])

\* a result whose findings were appended in another order than the sorted
\* one: an OAST finding stands before a module finding of equal confidence,
\* and a lower-confidence finding comes last
C5_Witness ==
    \E i \in 1..Len(results) :
        LET fs == results[i].findings
        IN /\ Len(fs) >= 3
           /\ fs[1].module = "oast_listener"
           /\ fs[2].module # "oast_listener"
           /\ fs[2].confidence = fs[1].confidence
           /\ fs[Len(fs)].confidence < fs[1].confidence

----------------------------------------------------------------------------
(* C6 *)

\* C6: with verbose false no finding of confidence below 55 is in a
\* ScanResult, in a pipeline's findings or passed to the finding callback.
C6_NoSubThresholdUnlessVerbose ==
    ~config.verbose =>
        /\ \A fs \in FindingLists : \A k \in 1..Len(fs) :
              fs[k].confidence >= PossibleMin
        /\ \A t \in Targets : \A k \in 1..Len(finding_cb_log[t]) :
              finding_cb_log[t][k].confidence >= PossibleMin

\* verbose is off and a module returned a sub-threshold finding for a
\* target that has its result
C6_Witness ==
    /\ ~config.verbose
    /\ \E i \in 1..Len(results) :
          \E k \in 1..Len(module_log[results[i].target]) :
              \E f \in Range(module_log[results[i].target][k].returned) :
                  f.confidence < PossibleMin

----------------------------------------------------------------------------
(* C7 *)

\* C7 as claimed: with verbose true a finding of confidence below 55 is
\* still kept out of the ScanResult and of the finding callback.
C7_VerboseStillDropsFindings ==
    config.verbose =>
        /\ \A fs \in FindingLists : \A k \in 1..Len(fs) :
              fs[k].confidence >= PossibleMin
        /\ \A t \in Targets : \A k \in 1..Len(finding_cb_log[t]) :
              finding_cb_log[t][k].confidence >= PossibleMin

\* C7 amended: with verbose true every finding a module returned, whatever
\* its confidence, is in the target's ScanResult and was passed to the
\* finding callback, and every module error is a module_error evidence item.
C7_VerboseKeepsFindings ==
    config.verbose =>
        \A i \in 1..Len(results) :
            LET t == results[i].target
            IN \A k \in 1..Len(module_log[t]) :
                  /\ Range(module_log[t][k].returned)
                        \subseteq Range(results[i].findings)
                  /\ Range(module_log[t][k].returned)
                        \subseteq Range(finding_cb_log[t])
                  /\ module_log[t][k].raised =>
                        \E e \in Range(results[i].evidence) :
                            /\ e.kind = "module_error"
                            /\ e.summary[1] = module_log[t][k].name

\* verbose is on and a result holds a finding of confidence below 55
C7_Witness ==
    /\ config.verbose
    /\ \E i \in 1..Len(results) :
          \E f \in Range(results[i].findings) :
              /\ f.confidence < PossibleMin
              /\ f \in Range(finding_cb_log[results[i].target])

----------------------------------------------------------------------------
(* C8 *)

OastItems(ev) == SelectSeq(ev, LAMBDA it : it.kind = "oast_callback")

\* C8: check_callbacks drains the log: a callback recorded by the polling
\* task is returned by one check_callbacks call only, so over all targets
\* of a scan one callback gives at most one oast_listener finding.
C8_CallbackReportedOnce ==
    /\ \A t, u \in Targets :
          t # u =>
             \A a \in 1..Len(check_log[t]) : \A b \in 1..Len(check_log[u]) :
                 check_log[t][a].timestamp # check_log[u][b].timestamp
    /\ \A i, j \in 1..Len(results) :
          i # j =>
             \A a \in Range(OastItems(results[i].evidence)) :
                 \A b \in Range(OastItems(results[j].evidence)) :
                     a.details.timestamp # b.details.timestamp

----------------------------------------------------------------------------
(* C9 *)

\* the vulnerability and CVE the claim gives for a callback type
ExpectedVuln(type) ==
    CASE type = "log4shell" -> <<"Log4Shell", "CVE-2021-44228">>
      [] type = "text4shell" -> <<"Text4Shell", "CVE-2022-42889">>
      [] OTHER -> <<"OAST Callback Detected", NULL>>

----------------------------------------------------------------------------
(* C10 *)

\* C10: when OAST listening is enabled and the client cannot be initialised
\* (library missing, or a constructor raises), scan() does not raise for
\* that reason, every target is scanned and no oast_listener finding appears
\* (local queue).
C10_OastInitFailureDegrades ==
    (/\ listener.set
     /\ ~config.distributed_queue.enabled
     /\ listener.env # "interactsh"
     /\ \A t \in Targets : host[t] # "badurl") =>
        /\ scan # "raised"
        /\ scan = "returned" => \A t \in Targets : ResultsOf(t) # {}
        /\ \A fs \in FindingLists : OastFindings(fs) = <<>>

----------------------------------------------------------------------------
(* C11 *)

KnownBackends == {"redis", "zeromq"}

\* no worker was started and nothing of a scan has happened
NothingScanned ==
    /\ \A w \in Workers : wk[w].pc = "off"
    /\ total_requests = 0
    /\ completed_targets = 0
    /\ results = <<>>
    /\ progress_log = <<>>
    /\ \A t \in Targets :
          /\ started[t] = 0
          /\ finding_cb_log[t] = <<>>
          /\ module_log[t] = <<>>

\* C11: with the distributed queue enabled, an unknown backend (ValueError)
\* or a backend whose driver cannot be imported (ImportError) makes
\* Engine.scan raise before any worker is started: no request is counted, no
\* target is scanned, no progress or finding callback fires.
C11_ConfigErrorRaisesBeforeScanning ==
    /\ \A d \in DistributedQueueConfigs : \A env \in DistEnvs :
          (d.enabled /\ (d.backend \notin KnownBackends \/ env = "missing")) =>
              initialize_distributed_queue(d, TargetList, env).raises
                  = IF d.backend \in KnownBackends THEN "ImportError"
                    ELSE "ValueError"
    /\ (config.distributed_queue.enabled
          /\ config.distributed_queue.backend \notin KnownBackends) =>
              /\ scan \in {"new", "raised"}
              /\ scan = "raised" => scan_exc = "ValueError"
    /\ scan_exc \in {"ValueError", "ImportError"} =>
          /\ scan = "raised"
          /\ config.distributed_queue.enabled
          /\ backend = "none"
          /\ pushed = <<>>
          /\ NothingScanned

\* scan() has raised the ImportError of a missing driver, with two workers
\* configured and OAST listening enabled
C11_Witness ==
    /\ scan = "raised"
    /\ scan_exc = "ImportError"
    /\ config.distributed_queue.backend = "zeromq"
    /\ config.concurrency = 2
    /\ config.oast

----------------------------------------------------------------------------
(* C12 *)

\* C12: with a distributed queue enabled, an engine hands targets to the
\* backend's push operation only when master_mode is set; in worker_mode, or
\* with neither flag, it pushes nothing (Redis and ZeroMQ).
C12_PushOnlyAsMaster ==
    (config.distributed_queue.enabled /\ pushed # <<>>) =>
        /\ config.distributed_queue.master_mode
        /\ ~config.distributed_queue.worker_mode

----------------------------------------------------------------------------
(* C13 *)

\* C13: with a distributed queue enabled and initialised, the worker loop
\* runs as with the local queue: no worker fails when it asks the backend
\* for the next target, scan() does not raise, and when it returns every
\* target pushed to the shared queue has exactly one result.
C13_DistributedWorkerLoop ==
    backend \in KnownBackends =>
        /\ \A w \in Workers : wk[w].pc # "failed"
        /\ scan # "raised"
        /\ scan = "returned" =>
              \A k \in 1..Len(pushed) :
                  Cardinality(ResultsOf(pushed[k])) = 1

----------------------------------------------------------------------------
(* C14 *)

\* the version strings of SpringVersionStrings that lie in 5.3.0-5.3.17 or
\* 5.2.0-5.2.19
SpringVersionsInRange ==
    { Version3("5", "3", "0"), Version3("5", "3", "17"),
      Version4("5", "2", "19", "RELEASE") }

\* the five preconditions of the claim, read off the application
Spring4ShellPreconditions(input) ==
    /\ (IF input.jar_ver # NoString THEN input.jar_ver
        ELSE input.actuator_ver) \in SpringVersionsInRange
    /\ input.java_version \in { << "9" >>, << "11", ".", "0", ".", "2" >> }
    /\ input.web_inf.kind = "response"
    /\ input.web_inf.status_code \in {401, 403}
    /\ \/ "tomcat" \in input.containers
       \/ input.server \cap {"tomcat", "apache-coyote"} # {}
    /\ input.probe.kind = "response"
    /\ input.probe.status_code \in {400, 422, 500}
    /\ input.probe.markers \cap BinderNeedles # {}

\* C14: Spring4ShellModule.run returns exactly one finding, of confidence 95
\* and tier CONFIRMED with five distinct evidence ids that are the stable ids
\* of precondition items it recorded, if and only if all five preconditions
\* hold; otherwise it returns the empty list. It does not raise.
C14_Spring4ShellChain ==
    (call.fn = "spring4shell" /\ call.done) =>
        LET r == call.result
        IN /\ r.raises = NULL
           /\ IF Spring4ShellPreconditions(call.input)
              THEN /\ Len(r.findings) = 1
                   /\ r.findings[1].confidence = 95
                   /\ r.findings[1].tier = "CONFIRMED"
                   /\ Len(r.findings[1].evidence_ids) = 5
                   /\ Cardinality(Range(r.findings[1].evidence_ids)) = 5
                   /\ \A id \in Range(r.findings[1].evidence_ids) :
                         \E e \in Range(r.items) :
                             e.kind = "precondition" /\ stable_id(e) = id
              ELSE r.findings = <<>>

\* a finding from a version with a suffix found in actuator data, a JDK 9
\* and a Tomcat known from the Server header only
C14_Witness ==
    /\ call.fn = "spring4shell"
    /\ call.done
    /\ call.input.jar_ver = NoString
    /\ call.input.actuator_ver = Version4("5", "2", "19", "RELEASE")
    /\ call.input.java_version = << "9" >>
    /\ call.input.containers = {}
    /\ Len(call.result.findings) = 1

----------------------------------------------------------------------------
(* C15 *)

\* version strings inside the vulnerable range of each module
TriggerVersionsInRange ==
    { Version3("2", "14", "1"), Version3("2", "0", "0"),
      << "1", ".", "9" >>, Version3("1", "5", "0") }

\* the same module run on the same observations without an OAST domain
WithoutOastDomain ==
    IF call.fn = "log4shell"
    THEN Log4ShellRun(CallTarget, call.input, NoString)
    ELSE Text4ShellRun(CallTarget, call.input, NoString)

\* C15: for Log4Shell and Text4Shell, on observations showing a version in
\* the vulnerable range, a run with an OAST domain sends the trigger and
\* returns its finding at once, with a confidence strictly higher than the
\* run without an OAST domain gives.
C15_TriggerRaisesConfidence ==
    (/\ call.fn \in {"log4shell", "text4shell"}
     /\ call.done
     /\ call.input.version \in TriggerVersionsInRange
     /\ call.oast_domain = OastDomain) =>
        /\ call.result.raises = NULL
        /\ call.result.requests = 1
        /\ Len(call.result.findings) = 1
        /\ Len(WithoutOastDomain.findings) = 1
        /\ call.result.findings[1].confidence
              > WithoutOastDomain.findings[1].confidence

----------------------------------------------------------------------------
(* C16 *)

\* C16: tier_for_confidence(c) is CONFIRMED iff c >= 92, HIGHLY_LIKELY iff
\* 78 <= c < 92, POSSIBLE iff 55 <= c < 78, and null otherwise.
C16_TierThresholds ==
    (call.fn = "tier_for_confidence" /\ call.done) =>
        LET c == call.input.confidence
            tier == call.result
        IN /\ tier = "CONFIRMED" <=> c >= 92
           /\ tier = "HIGHLY_LIKELY" <=> (78 <= c /\ c < 92)
           /\ tier = "POSSIBLE" <=> (55 <= c /\ c < 78)
           /\ tier = NULL <=> c < 55

\* the boundary value 78 is HIGHLY_LIKELY
C16_Witness ==
    /\ call.fn = "tier_for_confidence"
    /\ call.done
    /\ call.input.confidence = 78
    /\ call.result = "HIGHLY_LIKELY"

----------------------------------------------------------------------------
(* C20 *)

\* the strings of Vm2VersionStrings that pin an exact version of three or four
\* numbers at most 3.9.18 (blanks around the version do not count)
Vm2PinsAffected ==
    { Version3("3", "9", "18"), Version3("3", "9", "17"),
      Version3("0", "0", "0"), Version4("3", "9", "18", "0"),
      << " " >> \o Version3("3", "9", "18") \o << " " >> }

\* the first section with a string "vm2" entry pins an affected version
Vm2FirstEntryAffected(input) ==
    \E i \in 1..3 :
        /\ input.sections[i].has
        /\ \A j \in 1..(i - 1) : ~input.sections[j].has
        /\ input.sections[i].dep \in Vm2PinsAffected

----------------------------------------------------------------------------
(* C17 *)

\* C17: in every ScanResult, every finding has a non-empty evidence_ids list
\* and each id in it is the stable id of an evidence item of that same
\* ScanResult.
C17_FindingsReferenceRecordedEvidence ==
    \A i \in 1..Len(results) :
        \A f \in Range(results[i].findings) :
            /\ f.evidence_ids # <<>>
            /\ \A id \in Range(f.evidence_ids) :
                  \E e \in Range(results[i].evidence) : stable_id(e) = id

\* a result whose Fastjson finding references its two evidence items
C17_Witness ==
    \E i \in 1..Len(results) :
        \E f \in Range(results[i].findings) :
            /\ f.module = "fastjson"
            /\ Len(f.evidence_ids) = 2
            /\ \E e \in Range(results[i].evidence) : e.kind = "fingerprint"

----------------------------------------------------------------------------
(* C18 *)

RECURSIVE RequestsRecorded(_)
\* the requests that returned to _scan_one or to a module, counted by the
\* "http" evidence items they left in a sequence of evidence stores
RequestsRecorded(stores) ==
    IF stores = <<>> THEN 0
    ELSE Len(HttpItems(Head(stores))) + RequestsRecorded(Tail(stores))

\* the evidence stores of the finished and of the running pipelines
EvidenceStores ==
    [i \in 1..Len(results) |-> results[i].evidence]
        \o [w \in 1..Cardinality(Workers) |-> wk[w].evidence]

\* C18: no counter update is lost under any interleaving of the workers:
\* total_requests counts every request that returned through the request
\* context exactly once, completed_targets counts every finished target
\* exactly once and never exceeds the number of results appended, and when
\* scan() returns completed_targets equals the number of results and
\* total_requests is at least six times that number.
C18_CountersExact ==
    /\ total_requests = RequestsRecorded(EvidenceStores)
    /\ completed_targets <= Len(results)
    /\ completed_targets = Cardinality({ t \in Targets : ResultsOf(t) # {} })
    /\ scan = "returned" =>
          /\ completed_targets = Len(results)
          /\ total_requests >= 6 * Len(results)

\* two workers finished every target and a module sent requests of its own
C18_Witness ==
    /\ scan = "returned"
    /\ config.concurrency = 2
    /\ Len(results) = NumTargets
    /\ completed_targets = NumTargets
    /\ total_requests > 6 * NumTargets

----------------------------------------------------------------------------
(* C19 *)

\* the local queue is used and every request of the scan returns
EveryCallReturns ==
    /\ ~config.distributed_queue.enabled
    /\ \A t \in Range(targets) : host[t] # "badurl"

\* C19: with the local queue, if every HTTP request and every module run
\* returns, then once the workers are started every worker eventually finds
\* the queue empty and returns and Engine.scan returns, whatever the
\* concurrency (more workers than targets and concurrency <= 0 included) and
\* also for an empty target list.
C19_ScanTerminates ==
    (EveryCallReturns /\ scan = "running") ~>
        (/\ scan = "returned"
         /\ queue = <<>>
         /\ \A w \in Workers : wk[w].pc \in {"done", "off"})

\* a scan of an empty target list by two workers has returned
C19_WitnessEmptyList ==
    /\ targets = <<>>
    /\ config.concurrency = 2
    /\ scan = "returned"
    /\ \A w \in Workers : wk[w].pc = "done"
    /\ results = <<>>

----------------------------------------------------------------------------
(* C21 *)

\* two raw targets name the same URL up to the letter case of scheme and
\* host and a trailing slash
SameTarget(a, b) ==
    /\ a.host # ""
    /\ b.host # ""
    /\ Lower[a.scheme] = Lower[b.scheme]
    /\ Lower[a.host] = Lower[b.host]
    /\ rstrip_slash(a.path) = rstrip_slash(b.path)

\* C21: normalize_url maps two URLs that differ only in the letter case of
\* scheme or host and/or in a trailing slash to the same canonical string,
\* and it is idempotent on its own output.
C21_NormalizeUrlCanonical ==
    (call.fn = "normalize_url" /\ call.done /\ call.result.raises = NULL) =>
        /\ \A o \in UrlInputs :
              SameTarget(call.input, o) =>
                  normalize_url(o.raw, DefaultScheme) = call.result
        /\ normalize_url(call.result.url, DefaultScheme) = call.result

----------------------------------------------------------------------------
(* C22 *)

\* the version step succeeds on these observations
SpringVersionStepOk(input) ==
    (IF input.jar_ver # NoString THEN input.jar_ver
     ELSE input.actuator_ver) \in SpringVersionsInRange

\* the JDK step succeeds on these observations
SpringJdkStepOk(input) ==
    input.java_version \in { << "9" >>, << "11", ".", "0", ".", "2" >> }

\* the Tomcat step succeeds on these observations
SpringTomcatStepOk(input) ==
    \/ "tomcat" \in input.containers
    \/ input.server \cap {"tomcat", "apache-coyote"} # {}

\* C22: Spring4ShellModule.run sends no request when the version or the JDK
\* step fails; it sends the GET of /WEB-INF/web.xml only after both
\* succeeded, and the POST probe only after that GET was answered 401 or 403
\* and Tomcat was detected; a run sends 0, 1 or 2 requests.
C22_Spring4ShellStepOrder ==
    (call.fn = "spring4shell" /\ call.done) =>
        LET http == HttpItems(call.result.items)
            input == call.input
        IN /\ call.result.requests = Len(http)
           /\ Len(http) \in 0..2
           /\ ~(SpringVersionStepOk(input) /\ SpringJdkStepOk(input)) =>
                 http = <<>>
           /\ Len(http) >= 1 =>
                 /\ http[1].method = "GET"
                 /\ http[1].url = <<CallTarget, "/WEB-INF/web.xml">>
           /\ Len(http) = 2 =>
                 /\ http[2].method = "POST"
                 /\ http[1].status_code \in {401, 403}
                 /\ input.web_inf.status_code \in {401, 403}
                 /\ SpringTomcatStepOk(input)

\* a run that stopped after the GET because no Tomcat was found, although
\* /WEB-INF/web.xml was protected
C22_WitnessStopsBeforeProbe ==
    /\ call.fn = "spring4shell"
    /\ call.done
    /\ call.input.web_inf.status_code = 403
    /\ ~SpringTomcatStepOk(call.input)
    /\ call.result.requests = 1
    /\ Len(HttpItems(call.result.items)) = 1

----------------------------------------------------------------------------
(* C23 *)

\* the domains of OastDomains that name a domain
OastDomainsConfigured == { OastDomain }

\* C23: one run of the Log4Shell or Text4Shell module sends exactly one
\* trigger request (a GET of the target's root) if an OAST domain is
\* configured and a version inside the vulnerable range was detected, and no
\* request at all otherwise: no OAST domain, version outside the range, or
\* the presence-only path.
C23_SingleTrigger ==
    (call.fn \in {"log4shell", "text4shell"} /\ call.done) =>
        LET http == HttpItems(call.result.items)
        IN /\ call.result.requests = Len(http)
           /\ IF /\ call.oast_domain \in OastDomainsConfigured
                 /\ call.input.version \in TriggerVersionsInRange
              THEN /\ Len(http) = 1
                   /\ http[1].method = "GET"
                   /\ http[1].url = <<CallTarget, "/">>
              ELSE http = <<>>

\* a Text4Shell run with an OAST domain on a vulnerable version sent its one
\* trigger, which the host did not answer
C23_WitnessTriggerSent ==
    /\ call.fn = "text4shell"
    /\ call.done
    /\ call.oast_domain = OastDomain
    /\ call.input.version = Version3("1", "5", "0")
    /\ call.input.trigger = Unanswered
    /\ call.result.requests = 1
    /\ Len(call.result.findings) = 1

----------------------------------------------------------------------------
(* C24 *)

\* the first call of Engine.aclose has returned
AcloseReturned ==
    IF aclose_log = << >> THEN FALSE ELSE aclose_log[1].pc = "returned"

C24_WitnessNoTask ==
    /\ Len(aclose_log) = 1
    /\ aclose_log[1].pc = "returned"
    /\ aclose_log[1].listener
    /\ ~aclose_log[1].task
    /\ listener.client = NULL

----------------------------------------------------------------------------
(* C25 *)

\* the requests whose header names were rewritten, in the order in which
\* they were rewritten
MutatedRequests == SelectSeq(sent, LAMBDA e : e.strategy # NULL)

\* C25: with WAF bypass and header capitalisation enabled every request is
\* rewritten, the n-th of them (from 0, over all callers of the shared
\* client, in whatever order they reach the client) with
\* header_strategies[n mod len(header_strategies)]; _strategy_index is the
\* number of rewritten requests; and with WAF bypass disabled no request is
\* rewritten and the index stays 0.
C25_StrategyRotation ==
    LET pool == waf_bypass.header_strategies
        mutated == MutatedRequests
    IN /\ \A n \in 1..Len(mutated) :
            /\ mutated[n].index = n - 1
            /\ mutated[n].strategy = pool[((n - 1) % Len(pool)) + 1]
       /\ strategy_index = Len(mutated)
       /\ (waf_bypass.enabled /\ waf_bypass.capitalize_headers /\ pool # << >>)
            => mutated = sent
       /\ ~waf_bypass.enabled => (mutated = << >> /\ strategy_index = 0)

\* two callers shared the client under the default pool: the second one's
\* request was rewritten first, in lower case, the first one's in upper case
C25_WitnessTwoCallers ==
    /\ waf_bypass.enabled
    /\ waf_bypass.header_strategies = WAFBypassDefault.header_strategies
    /\ Len(sent) = 2
    /\ sent[1].caller = 2
    /\ sent[1].strategy = "LOWERCASE"
    /\ sent[2].caller = 1
    /\ sent[2].strategy = "UPPERCASE"
    /\ sent[2].given # << >>
    /\ strategy_index = 2

\* a one-strategy pool wraps around at the second request
C25_WitnessWrap ==
    /\ waf_bypass.header_strategies = << "UPPERCASE" >>
    /\ Len(MutatedRequests) = 2
    /\ sent[2].index = 1
    /\ sent[2].strategy = "UPPERCASE"

----------------------------------------------------------------------------
(* C26 *)

\* how often x occurs in the sequence s
Occurrences(s, x) == Cardinality({ i \in 1..Len(s) : s[i] = x })

\* the same elements, each as often
SameElements(s, r) ==
    /\ Len(s) = Len(r)
    /\ \A x \in Range(s) \cup Range(r) : Occurrences(s, x) = Occurrences(r, x)

\* the pipelines of target t that have not delivered their result yet
PipelinesOf(t) ==
    { w \in Workers : wk[w].target = t /\ wk[w].pc \in {"module", "oast"} }

\* C26: the finding callback has been invoked exactly once for each finding
\* of a target's ScanResult, module findings and OAST findings alike, and
\* for no other finding; the invocations come before the result is appended:
\* while a pipeline is still running, the callback has already received
\* every finding the pipeline has accepted so far. The progress callback is
\* invoked once per appended result, the k-th time with the count k that
\* includes that result.
C26_CallbacksExact ==
    /\ \A t \in Targets :
          /\ \A i \in ResultsOf(t) :
                SameElements(finding_cb_log[t], results[i].findings)
          /\ ResultsOf(t) = {} =>
                /\ \A w \in PipelinesOf(t) :
                      finding_cb_log[t] = wk[w].findings
                /\ PipelinesOf(t) = {} => finding_cb_log[t] = << >>
    /\ Len(progress_log) = Len(results)
    /\ \A k \in 1..Len(progress_log) : progress_log[k] = <<k, Len(targets)>>
    /\ completed_targets = Len(progress_log)

\* one target's result holds a module finding and an OAST finding, both
\* reported, while the other target's pipeline has reported a finding and
\* has no result yet
C26_WitnessStreamed ==
    \E t \in Targets, u \in Targets :
        /\ t # u
        /\ \E i \in ResultsOf(t) :
              /\ \E f \in Range(results[i].findings) : f.module = "oast_listener"
              /\ \E f \in Range(results[i].findings) : f.module # "oast_listener"
        /\ ResultsOf(u) = {}
        /\ finding_cb_log[u] # << >>
        /\ Len(progress_log) = 1

----------------------------------------------------------------------------
(* C27 *)

\* every item of the store was produced for target t: its provenance names
\* a URL of t
OwnItems(t, items) == \A e \in Range(items) : e.url[1] = t

\* the Fingerprint the observations of target t alone give
OwnFingerprint(t) == [server |-> IF host[t] = "up" THEN "nginx" ELSE NULL]

\* C27: under any interleaving of the pipelines, the EvidenceStore of a
\* target, while its pipeline runs and in its ScanResult, holds only items
\* added for that target, and the Fingerprint of the result is the one that
\* target's own answers give; nothing of another target's scan appears in
\* either.
C27_PipelinesIsolated ==
    /\ \A w \in Workers :
          wk[w].target # NoTarget => OwnItems(wk[w].target, wk[w].evidence)
    /\ \A i \in 1..Len(results) :
          /\ OwnItems(results[i].target, results[i].evidence)
          /\ results[i].fingerprint = OwnFingerprint(results[i].target)

\* two pipelines run side by side on different targets, one answering and
\* one not, each with evidence and module findings of its own
C27_WitnessConcurrent ==
    /\ wk[1].pc = "module"
    /\ wk[2].pc = "module"
    /\ wk[1].target # wk[2].target
    /\ host[wk[1].target] # host[wk[2].target]
    /\ wk[1].findings # << >>
    /\ Len(wk[1].evidence) > Len(BaselinePaths)
    /\ Len(wk[2].evidence) >= Len(BaselinePaths)

\* a worker delivered one target's result and took the other target
C27_WitnessSecondStore ==
    /\ Len(results) = 1
    /\ results[1].evidence # << >>
    /\ \E w \in Workers :
          /\ wk[w].pc = "module"
          /\ wk[w].target # results[1].target
          /\ config.concurrency = 1

----------------------------------------------------------------------------
(* C28 *)

\* a module run for target t sent a trigger request carrying a token
TriggerSentTo(t) ==
    \E k \in 1..Len(module_log[t]) :
        /\ module_log[t][k].name \in {"log4shell", "text4shell"}
        /\ module_log[t][k].requests > 0

\* C28: an oast_listener finding is attached to a target's result only if
\* the callback it reports came from a trigger sent to that target. A token
\* is issued per probe, so a callback has one cause: the target of a result
\* that reports the callback was sent a trigger, and no other target's
\* result reports the same callback.
C28_FindingOnlyForTriggeredTarget ==
    \A i \in 1..Len(results) :
        \A e \in Range(OastItems(results[i].evidence)) :
            /\ TriggerSentTo(results[i].target)
            /\ \A j \in 1..Len(results) :
                  results[j].target # results[i].target =>
                      \A d \in Range(OastItems(results[j].evidence)) :
                          d.details.timestamp # e.details.timestamp

----------------------------------------------------------------------------
(* C29 *)

\* the ways to find each entry of the mapping given in the mapping out, each
\* in a place of its own: same name up to letter case, same value
Carried(given, out) ==
    { f \in [1..Len(given) -> 1..Len(out)] :
        /\ \A i, j \in 1..Len(given) : i # j => f[i] # f[j]
        /\ \A i \in 1..Len(given) :
              /\ out[f[i]].key.text = given[i].key.text
              /\ out[f[i]].value = given[i].value }

\* C29: with WAF bypass enabled, injecting the decoy headers and rewriting
\* the case of the names only adds headers or changes letter case: every
\* header the caller passed is handed to httpx under the same name up to
\* case and with the caller's value, each as a header of its own, so that
\* none is lost to a key collision.
C29_CallerHeadersKept ==
    \A n \in 1..Len(sent) :
        (waf_bypass.enabled /\ sent[n].raises = NULL) =>
            Carried(sent[n].given, sent[n].headers) # {}

----------------------------------------------------------------------------
(* C30 *)

\* the places of the store whose item has the stable id sid
ItemsWithId(items, sid) == { k \in 1..Len(items) : stable_id(items[k]) = sid }

\* no two items of the store have the same stable id
DistinctIds(items) ==
    \A i, j \in 1..Len(items) :
        i # j => stable_id(items[i]) # stable_id(items[j])

\* C30: within one target's EvidenceStore, while its pipeline runs and in
\* its ScanResult, no two items have the same stable id, so that every
\* evidence id listed in a finding of the result identifies exactly one item
\* of the result's store.
C30_StableIdsUnique ==
    /\ \A w \in Workers : DistinctIds(wk[w].evidence)
    /\ \A r \in 1..Len(results) :
          /\ DistinctIds(results[r].evidence)
          /\ \A f \in Range(results[r].findings) :
                \A n \in 1..Len(f.evidence_ids) :
                    Cardinality(ItemsWithId(results[r].evidence,
                                            f.evidence_ids[n])) = 1

====
